---- MODULE Spec2Model ----
(***************************************************************************)
(* Classification and scoring engine of the reputation monitor:            *)
(* sentiment scoring, intent classification, priority ranking, crisis      *)
(* detection, reputation scoring and the mention store they feed.          *)
(*                                                                         *)
(* Numbers: every Python float of the engine (polarity, confidence,        *)
(* weights, scores) is a binary64 value and its arithmetic rounds as the   *)
(* machine's does.  Texts are strings; "x in text" is substring search.    *)
(***************************************************************************)
EXTENDS Integers, Sequences, FiniteSets, TLC

VARIABLES
    call,       \* the operation last invoked, with its arguments
    ret,        \* what that operation returned
    mentions,   \* the user_mentions table, in insertion order
    env_openai, \* TRUE iff the OPENAI_API_KEY environment variable is set
    pc,         \* "pending" until the operation in `call` has run, then "done"
    textblob,   \* TextBlob(text).sentiment for each text the program may score
    analyses,   \* the reputation_analyses table, in insertion order
    running,    \* the executions of the scheduler's tasks in progress
    products    \* the products table, in insertion order

vars == <<call, ret, mentions, env_openai, pc, textblob, analyses, running, products>>

-----------------------------------------------------------------------------
(* Python values *)

\* None where a string is expected, where a dict is expected, and where a
\* number is expected (a number x is <<x>>, so that it can be told from None)
None == "<None>"
NoneDict == [none |-> TRUE]

\* What a call leaves when an exception leaves it
Raises(exception) == [raises |-> exception]
NoneNum == <<>>
Num(x) == <<x>>

\* isinstance(v, (int, float)) of a value that is a number or None
IsNumber(v) == "man" \in DOMAIN v

Min(a, b) == IF a <= b THEN a ELSE b
Max(a, b) == IF a >= b THEN a ELSE b
Abs(a) == IF a < 0 THEN 0 - a ELSE a

\* The products the mentions of the store belong to, where no product is
\* created: the rows with the ids 1 and 2
StoredProducts == <<[id |-> 1, name |-> "Acme"], [id |-> 2, name |-> "Bolt"]>>

(* Numbers.  A Python float is an IEEE 754 binary64 value; its arithmetic  *)
(* rounds every result to 53 significant bits, ties to even.  A float is    *)
(* [neg, man, exp] standing for (-1)^neg * man * 2^exp, with man an odd     *)
(* natural number below 2^53, or zero with exp = 0 (0.0 and -0.0 are two   *)
(* values that compare equal).  Natural numbers of                          *)
(* any size are sequences of limbs, least significant first, without a      *)
(* leading zero limb.  Infinities, NaN and subnormal numbers are left out:  *)
(* no quantity of this program gets near them.                              *)

\* The width of a float's significand in bits (binary64).
Precision == 53

\* A limb holds LimbWidth bits: a choice of the representation, any width
\* whose square fits a 32-bit integer gives the same floats.
Base == 2 ^ 15

LimbWidth == CHOOSE w \in 1..30 : 2 ^ w = Base

Limb(a, i) == IF i <= Len(a) THEN a[i] ELSE 0

RECURSIVE Trim(_)
Trim(a) ==
    IF a # <<>> /\ a[Len(a)] = 0 THEN Trim(SubSeq(a, 1, Len(a) - 1)) ELSE a

RECURSIVE Big(_)
Big(n) == IF n = 0 THEN <<>> ELSE <<n % Base>> \o Big(n \div Base)

RECURSIVE Small(_)
Small(a) == IF a = <<>> THEN 0 ELSE a[1] + Base * Small(Tail(a))

RECURSIVE Zeros(_)
Zeros(n) == IF n = 0 THEN <<>> ELSE <<0>> \o Zeros(n - 1)

RECURSIVE BAddFrom(_, _, _, _)
BAddFrom(a, b, i, carry) ==
    IF i > Len(a) /\ i > Len(b) THEN Big(carry)
    ELSE <<(Limb(a, i) + Limb(b, i) + carry) % Base>>
         \o BAddFrom(a, b, i + 1, (Limb(a, i) + Limb(b, i) + carry) \div Base)

BAdd(a, b) == BAddFrom(a, b, 1, 0)

\* a - b for a >= b
RECURSIVE BSubFrom(_, _, _, _)
BSubFrom(a, b, i, borrow) ==
    IF i > Len(a) THEN <<>>
    ELSE <<(a[i] - Limb(b, i) - borrow + Base) % Base>>
         \o BSubFrom(a, b, i + 1, IF a[i] - Limb(b, i) - borrow < 0 THEN 1 ELSE 0)

BSub(a, b) == Trim(BSubFrom(a, b, 1, 0))

RECURSIVE BCmpFrom(_, _, _)
BCmpFrom(a, b, i) ==
    IF i = 0 THEN 0
    ELSE IF a[i] < b[i] THEN 0 - 1
    ELSE IF a[i] > b[i] THEN 1
    ELSE BCmpFrom(a, b, i - 1)

\* -1, 0 or 1 as a < b, a = b or a > b
BCmp(a, b) ==
    IF Len(a) < Len(b) THEN 0 - 1
    ELSE IF Len(a) > Len(b) THEN 1
    ELSE BCmpFrom(a, b, Len(a))

\* a * k for 0 <= k <= Base
RECURSIVE BMulSmallFrom(_, _, _, _)
BMulSmallFrom(a, k, i, carry) ==
    IF i > Len(a) THEN Big(carry)
    ELSE <<(a[i] * k + carry) % Base>>
         \o BMulSmallFrom(a, k, i + 1, (a[i] * k + carry) \div Base)

BMulSmall(a, k) == Trim(BMulSmallFrom(a, k, 1, 0))

RECURSIVE BMulFrom(_, _, _)
BMulFrom(a, b, j) ==
    IF j > Len(b) THEN <<>>
    ELSE BAdd(BMulSmall(a, b[j]), <<0>> \o BMulFrom(a, b, j + 1))

BMul(a, b) == Trim(BMulFrom(a, b, 1))

\* the quotient of a by k, 0 < k <= Base, limbs i..1 with `rest` carried in
RECURSIVE BDivSmallFrom(_, _, _, _)
BDivSmallFrom(a, k, i, rest) ==
    IF i = 0 THEN <<>>
    ELSE BDivSmallFrom(a, k, i - 1, (rest * Base + a[i]) % k)
         \o <<(rest * Base + a[i]) \div k>>

BDivSmall(a, k) == Trim(BDivSmallFrom(a, k, Len(a), 0))

RECURSIVE LimbBits(_)
LimbBits(x) == IF x = 0 THEN 0 ELSE 1 + LimbBits(x \div 2)

\* the number of bits of a
BBits(a) == IF a = <<>> THEN 0 ELSE LimbWidth * (Len(a) - 1) + LimbBits(a[Len(a)])

\* a * 2^n
BShl(a, n) ==
    IF a = <<>> THEN a
    ELSE BMulSmall(Zeros(n \div LimbWidth) \o a, 2 ^ (n % LimbWidth))

\* a \div 2^n
BShr(a, n) ==
    IF n \div LimbWidth >= Len(a) THEN <<>>
    ELSE BDivSmall(SubSeq(a, n \div LimbWidth + 1, Len(a)), 2 ^ (n % LimbWidth))

\* a % 2^n
BLow(a, n) == BSub(a, BShl(BShr(a, n), n))

\* the number of zero bits at the low end of a # 0
RECURSIVE TrailingZeros(_)
TrailingZeros(a) ==
    IF a[1] = 0 THEN LimbWidth + TrailingZeros(Tail(a))
    ELSE IF a[1] % 2 = 0 THEN 1 + TrailingZeros(<<a[1] \div 2>>)
    ELSE 0

\* the greatest digit d with b * d <= r, tried from `guess` downwards
RECURSIVE QuotientDigit(_, _, _)
QuotientDigit(r, b, guess) ==
    IF BCmp(BMulSmall(b, guess), r) > 0 THEN QuotientDigit(r, b, guess - 1)
    ELSE guess

\* the first guess at the next digit of a quotient by b
Guess(r, b) ==
    Min(Base - 1, (Limb(r, Len(b) + 1) * Base + Limb(r, Len(b))) \div b[Len(b)])

\* long division of limbs i..1 of a by b, whose top limb is >= Base/2,
\* with r < b carried in: the quotient and whether nothing remains
RECURSIVE BDivFrom(_, _, _, _, _)
BDivTake(a, b, i, r, q, digit) ==
    BDivFrom(a, b, i - 1, BSub(r, BMulSmall(b, digit)), <<digit>> \o q)

BDivFrom(a, b, i, r, q) ==
    IF i = 0 THEN [quotient |-> Trim(q), exact |-> r = <<>>]
    ELSE BDivTake(a, b, i, Trim(<<a[i]>> \o r), q,
                  QuotientDigit(Trim(<<a[i]>> \o r), b, Guess(Trim(<<a[i]>> \o r), b)))

\* a \div b and whether a is a multiple of b, for b # 0
BDivNormal(a, b) == BDivFrom(a, b, Len(a), <<>>, <<>>)

BDivShifted(a, b, s) == BDivNormal(BShl(a, s), BShl(b, s))

BDivMod(a, b) == BDivShifted(a, b, LimbWidth - LimbBits(b[Len(b)]))

\* (-1)^neg * man * 2^exp for man with `zeros` zero bits at its low end
Odd(neg, man, exp, zeros) ==
    [neg |-> neg, man |-> BShr(man, zeros), exp |-> exp + zeros]

Float(neg, man, exp) ==
    IF man = <<>> THEN [neg |-> neg, man |-> <<>>, exp |-> 0]
    ELSE Odd(neg, man, exp, TrailingZeros(man))

\* (-1)^neg * (n + f) * 2^exp rounded to the nearest float, ties to even,
\* where 0 <= f < 1 and f > 0 iff `inexact`; n has more than Precision
\* bits whenever f > 0
\* `kept` are the bits above the cut and `half` is -1, 0 or 1 as the bits
\* below it are less than, equal to or more than half a unit
RoundKept(neg, kept, half, exp, inexact) ==
    Float(neg,
          IF half > 0 \/ (half = 0 /\ (inexact \/ kept[1] % 2 = 1))
          THEN BAdd(kept, <<1>>) ELSE kept,
          exp)

RoundAt(neg, n, exp, inexact, d) ==
    RoundKept(neg, BShr(n, d), BCmp(BLow(n, d), BShl(<<1>>, d - 1)), exp + d, inexact)

Round(neg, n, exp, inexact) ==
    IF BBits(n) <= Precision THEN Float(neg, n, exp)
    ELSE RoundAt(neg, n, exp, inexact, BBits(n) - Precision)

\* the float nearest to p / q for natural numbers p and q # 0
RoundQuotient(neg, d, exp) == Round(neg, d.quotient, exp, ~d.exact)

\* p / q from the quotient of p * 2^sh by q, which has Precision + 2 bits
\* or one more
RatioAt(neg, p, q, exp, sh) ==
    RoundQuotient(neg, BDivMod(BShl(p, Max(sh, 0)), BShl(q, Max(0 - sh, 0))), exp - sh)

Ratio(neg, p, q, exp) ==
    IF p = <<>> THEN [neg |-> neg, man |-> <<>>, exp |-> 0]
    ELSE RatioAt(neg, p, q, exp, Precision + 2 - (BBits(p) - BBits(q)))

\* float(n / d) for integers n and d > 0; also a decimal literal n/d
F(n, d) == Ratio(n < 0, Big(Abs(n)), Big(d), 0)

\* -x
FNeg(x) == [x EXCEPT !.neg = ~x.neg]

\* x == 0
IsZero(x) == x.man = <<>>

\* abs(x)
FAbs(x) == [x EXCEPT !.neg = FALSE]

\* the magnitudes of x and y as multiples of the same power of two
AlignedAt(x, y, e) ==
    [x |-> BShl(x.man, x.exp - e), y |-> BShl(y.man, y.exp - e), exp |-> e]

Aligned(x, y) == AlignedAt(x, y, Min(x.exp, y.exp))

BCmpAligned(a) == BCmp(a.x, a.y)

\* -1, 0 or 1 as x < y, x = y or x > y
FCmp(x, y) ==
    IF x.man = <<>> THEN (IF y.man = <<>> THEN 0 ELSE IF y.neg THEN 1 ELSE 0 - 1)
    ELSE IF y.man = <<>> THEN (IF x.neg THEN 0 - 1 ELSE 1)
    ELSE IF x.neg # y.neg THEN (IF x.neg THEN 0 - 1 ELSE 1)
    ELSE (IF x.neg THEN 0 - 1 ELSE 1) * BCmpAligned(Aligned(x, y))

FLess(x, y) == FCmp(x, y) < 0

FMin(a, b) == IF FLess(b, a) THEN b ELSE a

FMax(a, b) == IF FLess(a, b) THEN b ELSE a

\* x + y for magnitudes a.x and a.y that compare as c says: their sum under
\* the common sign, or their difference under the sign of the greater
AddCompared(x, y, a, c) ==
    IF x.neg # y.neg /\ c = 0 THEN [neg |-> FALSE, man |-> <<>>, exp |-> 0]
    ELSE Round(IF c < 0 THEN y.neg ELSE x.neg,
               IF x.neg = y.neg THEN BAdd(a.x, a.y)
               ELSE IF c > 0 THEN BSub(a.x, a.y)
               ELSE BSub(a.y, a.x),
               a.exp, FALSE)

AddAligned(x, y, a) == AddCompared(x, y, a, BCmp(a.x, a.y))

\* x + y
FAdd(x, y) ==
    IF x.man = <<>> /\ y.man = <<>> THEN [neg |-> x.neg /\ y.neg, man |-> <<>>, exp |-> 0]
    ELSE IF x.man = <<>> THEN y
    ELSE IF y.man = <<>> THEN x
    ELSE AddAligned(x, y, Aligned(x, y))

\* x - y
FSub(x, y) == FAdd(x, FNeg(y))

\* x * y
FMul(x, y) == Round(x.neg # y.neg, BMul(x.man, y.man), x.exp + y.exp, FALSE)

\* x / y for y # 0
FDiv(x, y) == Ratio(x.neg # y.neg, x.man, y.man, x.exp - y.exp)

\* round(x, ndigits) as a number of units of 10^-ndigits: the multiple
\* nearest to x itself, the even one of two that are equally near
NearestKept(kept, half) ==
    Small(kept) + (IF half > 0 \/ (half = 0 /\ Limb(kept, 1) % 2 = 1) THEN 1 ELSE 0)

\* the integer nearest to n / 2^d for d > 0
Nearest(n, d) == NearestKept(BShr(n, d), BCmp(BLow(n, d), BShl(<<1>>, d - 1)))

UnitsOf(n, exp) == IF exp >= 0 THEN Small(BShl(n, exp)) ELSE Nearest(n, 0 - exp)

RoundUnits(x, unit) ==
    (IF x.neg THEN 0 - 1 ELSE 1) * UnitsOf(BMulSmall(x.man, unit), x.exp)

\* round(x, ndigits) for unit = 10^ndigits; the sign of x is kept
FromUnits(neg, units, unit) ==
    IF units = 0 THEN [neg |-> neg, man |-> <<>>, exp |-> 0] ELSE F(units, unit)

FRound(x, unit) == FromUnits(x.neg, RoundUnits(x, unit), unit)

\* The decimal literals of the source, each the float nearest to the number
\* written: Pct5 is 0.05 = 5/100, Num3_2 is 1.5 = 3/2, Num100 is 100.0
Pct5 == [neg |-> FALSE, man |-> <<19661, 6553, 13107, 102>>, exp |-> 0 - 56]

Pct10 == [neg |-> FALSE, man |-> <<19661, 6553, 13107, 102>>, exp |-> 0 - 55]

Pct15 == [neg |-> FALSE, man |-> <<13107, 26214, 19660, 153>>, exp |-> 0 - 55]

Pct20 == [neg |-> FALSE, man |-> <<19661, 6553, 13107, 102>>, exp |-> 0 - 54]

Pct30 == [neg |-> FALSE, man |-> <<13107, 26214, 19660, 153>>, exp |-> 0 - 54]

Pct35 == [neg |-> FALSE, man |-> <<13107, 26214, 19660, 89>>, exp |-> 0 - 53]

Pct40 == [neg |-> FALSE, man |-> <<19661, 6553, 13107, 102>>, exp |-> 0 - 53]

Pct50 == [neg |-> FALSE, man |-> <<1>>, exp |-> 0 - 1]

Pct60 == [neg |-> FALSE, man |-> <<13107, 26214, 19660, 153>>, exp |-> 0 - 53]

Pct70 == [neg |-> FALSE, man |-> <<13107, 26214, 19660, 89>>, exp |-> 0 - 52]

Pct80 == [neg |-> FALSE, man |-> <<19661, 6553, 13107, 102>>, exp |-> 0 - 52]

Pct85 == [neg |-> FALSE, man |-> <<13107, 26214, 19660, 217>>, exp |-> 0 - 53]

Pct90 == [neg |-> FALSE, man |-> <<19661, 6553, 13107, 230>>, exp |-> 0 - 53]

Pct95 == [neg |-> FALSE, man |-> <<13107, 26214, 19660, 121>>, exp |-> 0 - 52]

Pct170 == [neg |-> FALSE, man |-> <<13107, 26214, 19660, 217>>, exp |-> 0 - 52]

Pct250 == [neg |-> FALSE, man |-> <<5>>, exp |-> 0 - 1]

Zero == [neg |-> FALSE, man |-> <<>>, exp |-> 0]

One == [neg |-> FALSE, man |-> <<1>>, exp |-> 0]

Num2 == [neg |-> FALSE, man |-> <<1>>, exp |-> 1]

Num3 == [neg |-> FALSE, man |-> <<3>>, exp |-> 0]

Num20 == [neg |-> FALSE, man |-> <<5>>, exp |-> 2]

Num40 == [neg |-> FALSE, man |-> <<5>>, exp |-> 3]

Num50 == [neg |-> FALSE, man |-> <<25>>, exp |-> 1]

Num60 == [neg |-> FALSE, man |-> <<15>>, exp |-> 2]

Num75 == [neg |-> FALSE, man |-> <<75>>, exp |-> 0]

Num80 == [neg |-> FALSE, man |-> <<5>>, exp |-> 4]

Num100 == [neg |-> FALSE, man |-> <<25>>, exp |-> 2]

Num300 == [neg |-> FALSE, man |-> <<75>>, exp |-> 2]

Num500 == [neg |-> FALSE, man |-> <<125>>, exp |-> 2]

Num3_2 == [neg |-> FALSE, man |-> <<3>>, exp |-> 0 - 1]

Num1_3 == [neg |-> FALSE, man |-> <<21845, 10922, 21845, 170>>, exp |-> 0 - 54]

Num2_3 == [neg |-> FALSE, man |-> <<21845, 10922, 21845, 170>>, exp |-> 0 - 53]

Num1_300 == [neg |-> FALSE, man |-> <<6991, 27088, 14854, 218>>, exp |-> 0 - 61]

Num1_1000000000 == [neg |-> FALSE, man |-> <<22165, 20557, 14383, 137>>, exp |-> 0 - 82]


\* every literal is the correctly rounded quotient
LiteralsRounded ==
    /\ Pct5 = F(5, 100)
    /\ Pct10 = F(10, 100)
    /\ Pct15 = F(15, 100)
    /\ Pct20 = F(20, 100)
    /\ Pct30 = F(30, 100)
    /\ Pct35 = F(35, 100)
    /\ Pct40 = F(40, 100)
    /\ Pct50 = F(50, 100)
    /\ Pct60 = F(60, 100)
    /\ Pct70 = F(70, 100)
    /\ Pct80 = F(80, 100)
    /\ Pct85 = F(85, 100)
    /\ Pct90 = F(90, 100)
    /\ Pct95 = F(95, 100)
    /\ Pct170 = F(170, 100)
    /\ Pct250 = F(250, 100)
    /\ Zero = F(0, 1)
    /\ One = F(1, 1)
    /\ Num2 = F(2, 1)
    /\ Num3 = F(3, 1)
    /\ Num20 = F(20, 1)
    /\ Num40 = F(40, 1)
    /\ Num50 = F(50, 1)
    /\ Num60 = F(60, 1)
    /\ Num75 = F(75, 1)
    /\ Num80 = F(80, 1)
    /\ Num100 = F(100, 1)
    /\ Num300 = F(300, 1)
    /\ Num500 = F(500, 1)
    /\ Num3_2 = F(3, 2)
    /\ Num1_3 = F(1, 3)
    /\ Num2_3 = F(2, 3)
    /\ Num1_300 = F(1, 300)
    /\ Num1_1000000000 = F(1, 1000000000)

-----------------------------------------------------------------------------
(* Containers *)

\* dict.get(key, default)
Get(d, key, default) == IF key \in DOMAIN d THEN d[key] ELSE default

\* seq[:n]
Take(seq, n) == SubSeq(seq, 1, Min(n, Len(seq)))

RECURSIVE SumSeq(_)
SumSeq(seq) == IF seq = <<>> THEN 0 ELSE seq[1] + SumSeq(Tail(seq))

\* [x for x in seq if pred(x)]
RECURSIVE SelectInOrder(_, _)
SelectInOrder(seq, keep) ==
    IF seq = <<>> THEN <<>>
    ELSE (IF seq[1] \in keep THEN <<seq[1]>> ELSE <<>>)
         \o SelectInOrder(Tail(seq), keep)

Range(seq) == {seq[i] : i \in 1..Len(seq)}

\* all sequences over S of length at most n
RECURSIVE SeqsUpTo(_, _)
SeqsUpTo(S, n) ==
    IF n = 0 THEN {<<>>}
    ELSE LET shorter == SeqsUpTo(S, n - 1)
         IN shorter \cup {Append(q, x) : q \in {r \in shorter : Len(r) = n - 1}, x \in S}

-----------------------------------------------------------------------------
(* Text primitives *)

(* A string of this module holds the characters of the Basic Multilingual  *)
(* Plane that the module's lexer admits inside a string: U+0000..U+00FF    *)
(* but the grave accent, and above them those whose low byte is >= 0x80.   *)
(* The tables below list, for those characters, what CPython 3.11 does.    *)

CharAt(text, i) == SubSeq(text, i, i)

Chars(s) == {CharAt(s, i) : i \in 1..Len(s)}

CharsOf(rows) == UNION {Chars(rows[r]) : r \in DOMAIN rows}

\* the characters str.lower() changes, and what it makes of each
LowerFrom ==
    <<"ABCDEFGHIJKLMNOPQRSTUVWXYZÀÁÂÃÄÅÆÇÈÉÊËÌÍÎÏÐÑÒÓÔÕÖØÙÚÛÜÝÞƂƄƇƋ",
     "ƎƑƘƠƢƤƦƧƩƬƮƯƱƲƳƵƷƸƼǄǅǇǈǊǋǍǏǑǓǕǗǙǛǞǠǢǤǦǨǪǬǮǱǲǴǶǷǸǺǼǾΆΈΉΊΌΎΏΑΒ",
     "ΓΔΕΖΗΘΙΚΛΜΝΞΟΠΡΣΤΥΦΧΨΩΪΫϏϘϚϜϞϠϢϤϦϨϪϬϮϴϷϹϺҀҊҌҎҐҒҔҖҘҚҜҞҠҢҤҦҨҪҬ",
     "ҮҰҲҴҶҸҺҼҾӀӁӃӅӇӉӋӍӐӒӔӖӘӚӜӞӠӢӤӦӨӪӬӮӰӲӴӶӸӺӼӾᎰᎱᎲᎳᎴᎵᎶᎷᎸᎹᎺᎻᎼᎽᎾᎿᏀᏁᏂ",
     "ᏃᏄᏅᏆᏇᏈᏉᏊᏋᏌᏍᏎᏏᏐᏑᏒᏓᏔᏕᏖᏗᏘᏙᏚᏛᏜᏝᏞᏟᏠᏡᏢᏣᏤᏥᏦᏧᏨᏩᏪᏫᏬᏭᏮᏯᏰᏱᏲᏳᏴᏵᲐᲑᲒᲓᲔᲕᲖᲗᲘ",
     "ᲙᲚᲛᲜᲝᲞᲟᲠᲡᲢᲣᲤᲥᲦᲧᲨᲩᲪᲫᲬᲭᲮᲯᲰᲱᲲᲳᲴᲵᲶᲷᲸᲹᲺᲽᲾᲿẀẂẄẆẈẊẌẎẐẒẔẞẠẢẤẦẨẪẬẮẰẲẴ",
     "ẶẸẺẼẾỀỂỄỆỈỊỌỎỐỒỔỖỘỚỜỞỠỢỤỦỨỪỬỮỰỲỴỶỸỺỼỾᾈᾉᾊᾋᾌᾍᾎᾏᾘᾙᾚᾛᾜᾝᾞᾟᾨᾩᾪᾫᾬᾭᾮ",
     "ᾯᾸᾹᾼῌῘῙῨῩῬῼↃⒶⒷⒸⒹⒺⒻⒼⒽⒾⒿⓀⓁⓂⓃⓄⓅⓆⓇⓈⓉⓊⓋⓌⓍⓎⓏⲀⲂⲄⲆⲈⲊⲌⲎⲐⲒⲔⲖⲘⲚⲜⲞⲠⲢⲤⲦⲨⲪ",
     "ⲬⲮⲰⲲⲴⲶⲸⲺⲼⲾⳀⳂⳄⳆⳈⳊⳌⳎⳐⳒⳔⳖⳘⳚⳜⳞⳠⳢⳫⳭⳲꚀꚂꚄꚆꚈꚊꚌꚎꚐꚒꚔꚖꚘꚚꞀꞂꞄꞆꞋꞐꞒꞖꞘꞚꞜꞞꞠꞢꞤ",
     "ꞦꞨꞰꞱꞲꞴꞶꞸꞺꞼꞾꟀꟂꟄꟅꟆꟇꟉꟐꟖꟘꟵ">>

\* LowerTo[r][i] is the lower case of LowerFrom[r][i]
LowerTo ==
    <<"abcdefghijklmnopqrstuvwxyzàáâãäåæçèéêëìíîïðñòóôõöøùúûüýþƃƅƈƌ",
     "ǝƒƙơƣƥʀƨʃƭʈưʊʋƴƶʒƹƽǆǆǉǉǌǌǎǐǒǔǖǘǚǜǟǡǣǥǧǩǫǭǯǳǳǵƕƿǹǻǽǿάέήίόύώαβ",
     "γδεζηθικλμνξοπρστυφχψωϊϋϗϙϛϝϟϡϣϥϧϩϫϭϯθϸϲϻҁҋҍҏґғҕҗҙқҝҟҡңҥҧҩҫҭ",
     "үұҳҵҷҹһҽҿӏӂӄӆӈӊӌӎӑӓӕӗәӛӝӟӡӣӥӧөӫӭӯӱӳӵӷӹӻӽӿꮀꮁꮂꮃꮄꮅꮆꮇꮈꮉꮊꮋꮌꮍꮎꮏꮐꮑꮒ",
     "ꮓꮔꮕꮖꮗꮘꮙꮚꮛꮜꮝꮞꮟꮠꮡꮢꮣꮤꮥꮦꮧꮨꮩꮪꮫꮬꮭꮮꮯꮰꮱꮲꮳꮴꮵꮶꮷꮸꮹꮺꮻꮼꮽꮾꮿᏸᏹᏺᏻᏼᏽაბგდევზთი",
     "კლმნოპჟრსტუფქღყშჩცძწჭხჯჰჱჲჳჴჵჶჷჸჹჺჽჾჿẁẃẅẇẉẋẍẏẑẓẕßạảấầẩẫậắằẳẵ",
     "ặẹẻẽếềểễệỉịọỏốồổỗộớờởỡợụủứừửữựỳỵỷỹỻỽỿᾀᾁᾂᾃᾄᾅᾆᾇᾐᾑᾒᾓᾔᾕᾖᾗᾠᾡᾢᾣᾤᾥᾦ",
     "ᾧᾰᾱᾳῃῐῑῠῡῥῳↄⓐⓑⓒⓓⓔⓕⓖⓗⓘⓙⓚⓛⓜⓝⓞⓟⓠⓡⓢⓣⓤⓥⓦⓧⓨⓩⲁⲃⲅⲇⲉⲋⲍⲏⲑⲓⲕⲗⲙⲛⲝⲟⲡⲣⲥⲧⲩⲫ",
     "ⲭⲯⲱⲳⲵⲷⲹⲻⲽⲿⳁⳃⳅⳇⳉⳋⳍⳏⳑⳓⳕⳗⳙⳛⳝⳟⳡⳣⳬⳮⳳꚁꚃꚅꚇꚉꚋꚍꚏꚑꚓꚕꚗꚙꚛꞁꞃꞅꞇꞌꞑꞓꞗꞙꞛꞝꞟꞡꞣꞥ",
     "ꞧꞩʞʇʝꞵꞷꞹꞻꞽꞿꟁꟃꞔʂᶎꟈꟊꟑꟗꟙꟶ">>

\* characters whose lower case no string of this module can hold
LowerOutside ==
    <<"ƁƆƉƊƏƐƓƔƖƗƜƝƟϽϾϿႠႡႢႣႤႥႦႧႨႩႪႫႬႭႮႯႰႱႲႳႴႵႶႷႸႹႺႻႼႽႾႿჀჁჂჃჄჅჇჍᎠᎡᎢᎣ",
     "ᎤᎥᎦᎧᎨᎩᎪᎫᎬᎭᎮᎯᾺΆῈΈῊΉῚΊῪΎῸΌῺΏꞍꞪꞫꞬꞭꞮꞳ">>

\* cased characters that are not case-ignorable
CasedRows ==
    <<"ABCDEFGHIJKLMNOPQRSTUVWXYZabcdefghijklmnopqrstuvwxyzªµºÀÁÂÃÄ",
     "ÅÆÇÈÉÊËÌÍÎÏÐÑÒÓÔÕÖØÙÚÛÜÝÞßàáâãäåæçèéêëìíîïðñòóôõöøùúûüýþÿƀƁƂ",
     "ƃƄƅƆƇƈƉƊƋƌƍƎƏƐƑƒƓƔƕƖƗƘƙƚƛƜƝƞƟƠơƢƣƤƥƦƧƨƩƪƫƬƭƮƯưƱƲƳƴƵƶƷƸƹƺƼƽƾƿ",
     "ǄǅǆǇǈǉǊǋǌǍǎǏǐǑǒǓǔǕǖǗǘǙǚǛǜǝǞǟǠǡǢǣǤǥǦǧǨǩǪǫǬǭǮǯǰǱǲǳǴǵǶǷǸǹǺǻǼǽǾǿ",
     "ʀʁʂʃʄʅʆʇʈʉʊʋʌʍʎʏʐʑʒʓʕʖʗʘʙʚʛʜʝʞʟʠʡʢʣʤʥʦʧʨʩʪʫʬʭʮʯΆΈΉΊΌΎΏΐΑΒΓΔΕ",
     "ΖΗΘΙΚΛΜΝΞΟΠΡΣΤΥΦΧΨΩΪΫάέήίΰαβγδεζηθικλμνξοπρςστυφχψωϊϋόύώϏϐϑϒ",
     "ϓϔϕϖϗϘϙϚϛϜϝϞϟϠϡϢϣϤϥϦϧϨϩϪϫϬϭϮϯϰϱϲϳϴϵϷϸϹϺϻϼϽϾϿҀҁҊҋҌҍҎҏҐґҒғҔҕҖҗ",
     "ҘҙҚқҜҝҞҟҠҡҢңҤҥҦҧҨҩҪҫҬҭҮүҰұҲҳҴҵҶҷҸҹҺһҼҽҾҿӀӁӂӃӄӅӆӇӈӉӊӋӌӍӎӏӐӑӒӓ",
     "ӔӕӖӗӘәӚӛӜӝӞӟӠӡӢӣӤӥӦӧӨөӪӫӬӭӮӯӰӱӲӳӴӵӶӷӸӹӺӻӼӽӾӿրցւփքօֆևֈႠႡႢႣႤႥႦ",
     "ႧႨႩႪႫႬႭႮႯႰႱႲႳႴႵႶႷႸႹႺႻႼႽႾႿჀჁჂჃჄჅჇჍაბგდევზთიკლმნოპჟრსტუფქღყშჩც",
     "ძწჭხჯჰჱჲჳჴჵჶჷჸჹჺჽჾჿᎠᎡᎢᎣᎤᎥᎦᎧᎨᎩᎪᎫᎬᎭᎮᎯᎰᎱᎲᎳᎴᎵᎶᎷᎸᎹᎺᎻᎼᎽᎾᎿᏀᏁᏂᏃᏄᏅᏆᏇᏈ",
     "ᏉᏊᏋᏌᏍᏎᏏᏐᏑᏒᏓᏔᏕᏖᏗᏘᏙᏚᏛᏜᏝᏞᏟᏠᏡᏢᏣᏤᏥᏦᏧᏨᏩᏪᏫᏬᏭᏮᏯᏰᏱᏲᏳᏴᏵᏸᏹᏺᏻᏼᏽᲀᲁᲂᲃᲄᲅᲆᲇᲈ",
     "ᲐᲑᲒᲓᲔᲕᲖᲗᲘᲙᲚᲛᲜᲝᲞᲟᲠᲡᲢᲣᲤᲥᲦᲧᲨᲩᲪᲫᲬᲭᲮᲯᲰᲱᲲᲳᲴᲵᲶᲷᲸᲹᲺᲽᲾᲿᶀᶁᶂᶃᶄᶅᶆᶇᶈᶉᶊᶋᶌᶍ",
     "ᶎᶏᶐᶑᶒᶓᶔᶕᶖᶗᶘᶙᶚẀẁẂẃẄẅẆẇẈẉẊẋẌẍẎẏẐẑẒẓẔẕẖẗẘẙẚẛẜẝẞẟẠạẢảẤấẦầẨẩẪẫẬậẮ",
     "ắẰằẲẳẴẵẶặẸẹẺẻẼẽẾếỀềỂểỄễỆệỈỉỊịỌọỎỏỐốỒồỔổỖỗỘộỚớỜờỞởỠỡỢợỤụỦủỨứỪ",
     "ừỬửỮữỰựỲỳỴỵỶỷỸỹỺỻỼỽỾỿᾀᾁᾂᾃᾄᾅᾆᾇᾈᾉᾊᾋᾌᾍᾎᾏᾐᾑᾒᾓᾔᾕᾖᾗᾘᾙᾚᾛᾜᾝᾞᾟᾠᾡᾢᾣᾤᾥᾦ",
     "ᾧᾨᾩᾪᾫᾬᾭᾮᾯᾰᾱᾲᾳᾴᾶᾷᾸᾹᾺΆᾼιῂῃῄῆῇῈΈῊΉῌῐῑῒΐῖῗῘῙῚΊῠῡῢΰῤῥῦῧῨῩῪΎῬῲῳῴῶῷ",
     "ῸΌῺΏῼↃↄⒶⒷⒸⒹⒺⒻⒼⒽⒾⒿⓀⓁⓂⓃⓄⓅⓆⓇⓈⓉⓊⓋⓌⓍⓎⓏⓐⓑⓒⓓⓔⓕⓖⓗⓘⓙⓚⓛⓜⓝⓞⓟⓠⓡⓢⓣⓤⓥⓦⓧⓨⓩⲀ",
     "ⲁⲂⲃⲄⲅⲆⲇⲈⲉⲊⲋⲌⲍⲎⲏⲐⲑⲒⲓⲔⲕⲖⲗⲘⲙⲚⲛⲜⲝⲞⲟⲠⲡⲢⲣⲤⲥⲦⲧⲨⲩⲪⲫⲬⲭⲮⲯⲰⲱⲲⲳⲴⲵⲶⲷⲸⲹⲺⲻⲼ",
     "ⲽⲾⲿⳀⳁⳂⳃⳄⳅⳆⳇⳈⳉⳊⳋⳌⳍⳎⳏⳐⳑⳒⳓⳔⳕⳖⳗⳘⳙⳚⳛⳜⳝⳞⳟⳠⳡⳢⳣⳤⳫⳬⳭⳮⳲⳳꚀꚁꚂꚃꚄꚅꚆꚇꚈꚉꚊꚋꚌꚍ",
     "ꚎꚏꚐꚑꚒꚓꚔꚕꚖꚗꚘꚙꚚꚛꞀꞁꞂꞃꞄꞅꞆꞇꞋꞌꞍꞎꞐꞑꞒꞓꞔꞕꞖꞗꞘꞙꞚꞛꞜꞝꞞꞟꞠꞡꞢꞣꞤꞥꞦꞧꞨꞩꞪꞫꞬꞭꞮꞯꞰꞱ",
     "ꞲꞳꞴꞵꞶꞷꞸꞹꞺꞻꞼꞽꞾꞿꟀꟁꟂꟃꟄꟅꟆꟇꟈꟉꟊꟐꟑꟓꟕꟖꟗꟘꟙꟵꟶꟺꮀꮁꮂꮃꮄꮅꮆꮇꮈꮉꮊꮋꮌꮍꮎꮏꮐꮑꮒꮓꮔꮕꮖꮗ",
     "ꮘꮙꮚꮛꮜꮝꮞꮟꮠꮡꮢꮣꮤꮥꮦꮧꮨꮩꮪꮫꮬꮭꮮꮯꮰꮱꮲꮳꮴꮵꮶꮷꮸꮹꮺꮻꮼꮽꮾꮿ">>

\* case-ignorable characters
CaseIgnorableRows ==
    <<"'.:^¨­¯´·¸ʰʱʲʳʴʵʶʷʸʹʺʻʼʽʾʿˀˁ˂˃˄˅ˆˇˈˉˊˋˌˍˎˏːˑ˒˓˔˕˖˗˘˙˚˛˜˝˞˟ˠˡ",
     "ˢˣˤ˥˦˧˨˩˪˫ˬ˭ˮ˯˰˱˲˳˴˵˶˷˸˹˺˻˼˽˾˿΄΅·҃҄҅҆҇҈҉֑֖֛֢֣֤֚֒֓֔֕֗֘֙֜֝֞֟֠֡",
     "ְֱֲֳִֵֶַָׇֹֺֻּֽֿׁׂ֥֦֧֪ׅ֭֮֨֩֫֬֯ׄ״ۖۗۘۙۚۛۜ۝ۣ۟۠ۡۢۤۥۦ۪ۭۧۨ۫۬ަާިީުޫ",
     "ެޭޮޯް߲߫߬߭߮߯߰߱߳ߴߵߺ߽࢈࢐࢑࢙࢚࢛࢘࢜࢝࢞࢟ࣉ࣏࣐࣑࣒࣓࣊࣋࣌࣍࣎ࣔࣕࣖࣗࣘࣙࣚࣛࣜࣝࣞࣟ࣠࣡࣢ࣣࣦࣤࣥࣧ",
     "ࣰࣱࣲࣩ࣭࣮࣯ࣶࣹࣺࣨ࣪࣫࣬ࣳࣴࣵࣷࣸࣻࣼࣽࣾࣿঁ়ুূৃৄ্ৢৣ৾ઁં઼ુૂૃૄૅેૈ્ૢૣૺૻૼ૽૾૿ஂீ்ಁ಼ಿೆ",
     "ೌ್ೢೣඁ්ිීුූັິີຶື຺ຸູົຼໆ່້໊໋໌ໍ྄ཱྀྀྂྃ྆྇ྍྎྏྐྑྒྒྷྔྕྖྗྙྚྛྜྜྷྞྟྠྡྡྷྣྤྥྦྦྷ",
     "ྨྩྪྫྫྷྭྮྯྰྱྲླྴྵྶྷྸྐྵྺྻྼ࿆ႂႅႆႍႝჼ឴឵ិីឹឺុូួំ៉៊់៌៍៎៏័៑្៓ៗ៝ᢅᢆᢩᪧ᪰᪱᪲᪳᪴",
     "᪵᪶᪷᪸᪹᪺᪽᪻᪼᪾ᪿᫀ᫃᫄᫊᫁᫂᫅᫆᫇᫈᫉᫋ᫌᫍᫎᮀᮁᮢᮣᮤᮥᮨᮩ᮫ᮬᮭ᯦ᯨᯩᯭᯯᯰᯱ᳔᳕᳖᳗᳘᳙᳜᳝᳞᳟᳐᳑᳒᳚᳛᳠",
     "᳢᳣᳤᳥᳦᳧᳨᳭᳴᳸᳹ᶛᶜᶝᶞᶟᶠᶡᶢᶣᶤᶥᶦᶧᶨᶩᶪᶫᶬᶭᶮᶯᶰᶱᶲᶳᶴᶵᶶᶷᶸᶹᶺᶻᶼᶽᶾᶿ᷂᷊᷀᷁᷃᷄᷅᷆᷇᷈᷉᷋",
     "᷐᷎᷺᷏᷹᷽᷿᷷᷸᷌᷑᷒ᷓᷔᷕᷖᷗᷘᷙᷚᷛᷜᷝᷞᷟᷠᷡᷢᷣᷤᷥᷦᷧᷨᷩᷪᷫᷬᷭᷮᷯᷰᷱᷲᷳᷴ᷵᷻᷾᷶᷼᷍᾽᾿῀῁῍῎῏῝",
     "῞῟῭΅`´῾ₐₑₒₓₔₕₖₗₘₙₚₛₜ⃒⃓⃘⃙⃚⃐⃑⃔⃕⃖⃗⃛⃜⃝⃞⃟⃠⃡⃢⃣⃤⃥⃦⃪⃫⃨⃬⃭⃮⃯⃧⃩⃰⳯⳰⳱ⷠⷡⷢⷣ",
     "゙゚ⷤⷥⷦⷧⷨⷩⷪⷫⷬⷭⷮⷯⷰⷱⷲⷳⷴⷵⷶⷷⷸⷹⷺⷻⷼⷽⷾⷿ゛゜ゝゞーヽヾꓸꓹꓺꓻꓼꓽꚜꚝꚞꚟ꛰꛱ꞈ꞉꞊ꟲꟳꟴꟸꟹ꣄ꣅ꣠",
     "꣡꣢꣣꣤꣥꣦꣧꣨꣩꣪꣫꣬꣭꣮꣯꣰꣱ꣿꦀꦁꦂ꦳ꦶꦷꦸꦹꦼꦽꧏꧥꧦꪴꪰꪲꪳꪷꪸꪾ꪿꫁ꫝꫬꫭꫳꫴ꫶ꯥꯨ꯭﮲﮳﮴﮵﮶﮷﮸﮹﮺﮻﮼",
     "﮽﮾﮿﯀﯁﯂﻿ﾞﾟ￣￹￺￻">>

UpperToLower ==
    [c \in CharsOf(LowerFrom) |->
        LET r == CHOOSE r \in DOMAIN LowerFrom : c \in Chars(LowerFrom[r])
            i == CHOOSE i \in 1..Len(LowerFrom[r]) : CharAt(LowerFrom[r], i) = c
        IN CharAt(LowerTo[r], i)]

Uppercase == CharsOf(LowerFrom)

Unlowerable == CharsOf(LowerOutside)

Cased == CharsOf(CasedRows)

CaseIgnorable == CharsOf(CaseIgnorableRows)

\* the lower case of one character standing alone; a character of
\* LowerOutside has none that a string here can hold
LowerChar(c) ==
    IF c \in Uppercase THEN UpperToLower[c]
    ELSE IF c \in Unlowerable THEN CHOOSE d \in {} : TRUE
    ELSE c

\* a capital sigma is final when the nearest character before it that is
\* not case-ignorable is cased, and the nearest such character after it,
\* if any, is not
FinalSigma(s, i) ==
    /\ \E j \in 1..(i - 1) :
          /\ CharAt(s, j) \in Cased
          /\ \A k \in (j + 1)..(i - 1) : CharAt(s, k) \in CaseIgnorable
    /\ ~ \E j \in (i + 1)..Len(s) :
          /\ CharAt(s, j) \in Cased
          /\ \A k \in (i + 1)..(j - 1) : CharAt(s, k) \in CaseIgnorable

LowerAt(s, i) ==
    IF CharAt(s, i) = "Σ"
    THEN IF FinalSigma(s, i) THEN "ς" ELSE "σ"
    ELSE LowerChar(CharAt(s, i))

RECURSIVE LowerRange(_, _, _)
LowerRange(s, a, b) ==
    IF a > b THEN ""
    ELSE IF a = b THEN LowerAt(s, a)
    ELSE LowerRange(s, a, (a + b) \div 2) \o LowerRange(s, (a + b) \div 2 + 1, b)

\* str.lower()
Lower(s) == LowerRange(s, 1, Len(s))

\* text[i:i+len(k)] == k   (1-based i)
MatchAt(text, i, k) ==
    /\ i >= 1
    /\ i + Len(k) - 1 <= Len(text)
    /\ SubSeq(text, i, i + Len(k) - 1) = k

\* k in text
Contains(text, k) == \E i \in 1..(Len(text) - Len(k) + 1) : MatchAt(text, i, k)

\* any(k in text for k in keywords)
ContainsAny(text, keywords) == \E k \in Range(keywords) : Contains(text, k)

\* [k for k in keywords if k in text]
Matched(text, keywords) ==
    SelectInOrder(keywords, {k \in Range(keywords) : Contains(text, k)})

-----------------------------------------------------------------------------
(* Input texts: every fragment and every "a b" pair of fragments *)

Fragments ==
    { "",
      "Total SCAM, I want a REFUND",
      "they are stealing my money",
      "the app doesn't work",
      "debugging the flag",
      "how do i get help",
      "it is broken, awful and the worst",
      "i recommend it",
      "great ride",
      "not working since the download",
      "what is a better alternative to uber",
      "This is amazing, love it",
      "fine but slow",
      "account hacked and rude staff",
      "charged twice, app crash",
      "delete the app, never again",
      "okay\tbut  not worth it" }

Texts == Fragments \cup {a \o " " \o b : a \in Fragments \ {""}, b \in Fragments \ {""}}

-----------------------------------------------------------------------------
(* Intent classifier: AnalysisService.classify_intent *)

intent_patterns ==
    << [intent |-> "complaint",
        keywords |-> <<"not working", "doesnt work", "broken", "terrible", "awful",
                       "worst", "hate", "disappointed", "frustrated", "annoying",
                       "useless", "horrible", "crash", "bug", "issue", "problem",
                       "error", "fail", "refund">>],
       [intent |-> "question",
        keywords |-> <<"how to", "how do", "can i", "is it possible", "help",
                       "support", "what is", "where is", "when will", "why does",
                       "tutorial", "guide">>],
       [intent |-> "recommendation",
        keywords |-> <<"recommend", "suggest", "try", "should use", "better",
                       "alternative", "prefer", "switch to", "instead of",
                       "upgrade">>],
       [intent |-> "neutral_mention",
        keywords |-> <<"using", "experience with", "tried", "found", "noticed",
                       "seems", "appears", "looks like", "basically",
                       "generally">>] >>

\* The intent_scores dict, as its items in insertion order: one entry per
\* category whose keyword count is > 0.
RECURSIVE IntentScores(_, _)
IntentScores(text_lower, patterns) ==
    IF patterns = <<>> THEN <<>>
    ELSE LET score == Len(Matched(text_lower, patterns[1].keywords))
         IN (IF score > 0
             THEN <<[intent |-> patterns[1].intent, score |-> score,
                     keywords |-> patterns[1].keywords]>>
             ELSE <<>>)
            \o IntentScores(text_lower, Tail(patterns))

\* A tie-break that keeps the last maximal entry instead of the first.
MaxByScoreLast(items) ==
    items[CHOOSE i \in 1..Len(items) :
            /\ \A j \in 1..Len(items) : items[j].score <= items[i].score
            /\ \A j \in (i + 1)..Len(items) : items[j].score < items[i].score]

\* max(items, key=score): Python's max keeps the first maximal element.
MaxByScore(items) ==
    items[CHOOSE i \in 1..Len(items) :
            /\ \A j \in 1..Len(items) : items[j].score <= items[i].score
            /\ \A j \in 1..(i - 1) : items[j].score < items[i].score]

PrimaryIntent(text_lower, intent_scores, primary) ==
    [intent |-> primary.intent,
     confidence |-> FMin(One, F(primary.score, 3)),
     keywords_matched |-> Matched(text_lower, primary.keywords),
     all_scores |-> [i \in 1..Len(intent_scores) |->
                        <<intent_scores[i].intent, intent_scores[i].score>>]]

IntentOfScores(text_lower, intent_scores) ==
    IF intent_scores = <<>>
    THEN [intent |-> "neutral_mention", confidence |-> Pct50,
          keywords_matched |-> <<>>]
    ELSE PrimaryIntent(text_lower, intent_scores, MaxByScore(intent_scores))

ClassifyLower(text_lower) ==
    IntentOfScores(text_lower, IntentScores(text_lower, intent_patterns))

classify_intent(text) == ClassifyLower(Lower(text))

-----------------------------------------------------------------------------
(* Priority ranker: MentionService._determine_priority *)

critical_keywords ==
    <<"terrible", "worst", "awful", "broken", "crash", "bug", "error",
      "scam", "fraud", "stealing", "illegal", "lawsuit", "refund",
      "money back", "cancel subscription", "hate", "disgusting">>

high_keywords ==
    <<"problem", "issue", "complaint", "disappointed", "frustrated",
      "not working", "doesn't work", "failed", "slow", "lag">>

\* A ranker whose keyword test comes after the sentiment and intent rules.
DeterminePriorityKeywordsLast(sentiment, intent, content) ==
    LET content_lower == Lower(content)
        label == Get(sentiment, "sentiment_label", None)
        sconf == Get(sentiment, "confidence", Zero)
        iname == Get(intent, "intent", None)
        iconf == Get(intent, "confidence", Zero)
    IN IF \/ (label = "negative" /\ FLess(Pct80, sconf))
          \/ (iname = "complaint" /\ FLess(Pct80, iconf))
       THEN "critical"
       ELSE IF (label = "negative" /\ FLess(Pct60, sconf)) \/ iname = "complaint"
       THEN "high"
       ELSE IF iname = "question" \/ label = "neutral"
       THEN "medium"
       ELSE IF ContainsAny(content_lower, critical_keywords)
       THEN "critical"
       ELSE IF ContainsAny(content_lower, high_keywords)
       THEN "high"
       ELSE "low"

_determine_priority(sentiment, intent, content) ==
    LET content_lower == Lower(content)
        label == Get(sentiment, "sentiment_label", None)
        sconf == Get(sentiment, "confidence", Zero)
        iname == Get(intent, "intent", None)
        iconf == Get(intent, "confidence", Zero)
    IN IF \/ (label = "negative" /\ FLess(Pct80, sconf))
          \/ (iname = "complaint" /\ FLess(Pct80, iconf))
          \/ ContainsAny(content_lower, critical_keywords)
       THEN "critical"
       ELSE IF \/ (label = "negative" /\ FLess(Pct60, sconf))
               \/ iname = "complaint"
               \/ ContainsAny(content_lower, high_keywords)
       THEN "high"
       ELSE IF iname = "question" \/ label = "neutral"
       THEN "medium"
       ELSE "low"

-----------------------------------------------------------------------------
(* Regular expressions of the context rules.  A rule's pattern is          *)
(* \b slot1 \s+ slot2 ... \b, each slot a set of literal alternatives, or   *)
(* \b first [\b] .* [\b] second \b.                                         *)

\* the characters \w matches: alphanumerics and the underscore
WordCharRows ==
    <<"0123456789ABCDEFGHIJKLMNOPQRSTUVWXYZ_abcdefghijklmnopqrstuvw",
     "xyzª²³µ¹º¼½¾ÀÁÂÃÄÅÆÇÈÉÊËÌÍÎÏÐÑÒÓÔÕÖØÙÚÛÜÝÞßàáâãäåæçèéêëìíîïð",
     "ñòóôõöøùúûüýþÿƀƁƂƃƄƅƆƇƈƉƊƋƌƍƎƏƐƑƒƓƔƕƖƗƘƙƚƛƜƝƞƟƠơƢƣƤƥƦƧƨƩƪƫƬƭ",
     "ƮƯưƱƲƳƴƵƶƷƸƹƺƻƼƽƾƿǀǁǂǃǄǅǆǇǈǉǊǋǌǍǎǏǐǑǒǓǔǕǖǗǘǙǚǛǜǝǞǟǠǡǢǣǤǥǦǧǨǩ",
     "ǪǫǬǭǮǯǰǱǲǳǴǵǶǷǸǹǺǻǼǽǾǿʀʁʂʃʄʅʆʇʈʉʊʋʌʍʎʏʐʑʒʓʔʕʖʗʘʙʚʛʜʝʞʟʠʡʢʣʤʥ",
     "ʦʧʨʩʪʫʬʭʮʯʰʱʲʳʴʵʶʷʸʹʺʻʼʽʾʿˀˁˆˇˈˉˊˋˌˍˎˏːˑˠˡˢˣˤˬˮΆΈΉΊΌΎΏΐΑΒΓΔΕ",
     "ΖΗΘΙΚΛΜΝΞΟΠΡΣΤΥΦΧΨΩΪΫάέήίΰαβγδεζηθικλμνξοπρςστυφχψωϊϋόύώϏϐϑϒ",
     "ϓϔϕϖϗϘϙϚϛϜϝϞϟϠϡϢϣϤϥϦϧϨϩϪϫϬϭϮϯϰϱϲϳϴϵϷϸϹϺϻϼϽϾϿҀҁҊҋҌҍҎҏҐґҒғҔҕҖҗ",
     "ҘҙҚқҜҝҞҟҠҡҢңҤҥҦҧҨҩҪҫҬҭҮүҰұҲҳҴҵҶҷҸҹҺһҼҽҾҿӀӁӂӃӄӅӆӇӈӉӊӋӌӍӎӏӐӑӒӓ",
     "ӔӕӖӗӘәӚӛӜӝӞӟӠӡӢӣӤӥӦӧӨөӪӫӬӭӮӯӰӱӲӳӴӵӶӷӸӹӺӻӼӽӾӿրցւփքօֆևֈאבגדהוז",
     "חטיךכלםמןנסעףפץצקרשתׯװױײڀځڂڃڄڅچڇڈډڊڋڌڍڎڏڐڑڒړڔڕږڗژڙښڛڜڝڞڟڠڡڢڣ",
     "ڤڥڦڧڨکڪګڬڭڮگڰڱڲڳڴڵڶڷڸڹںڻڼڽھڿۀہۂۃۄۅۆۇۈۉۊۋیۍێۏېۑےۓەۥۦۮۯ۰۱۲۳۴۵۶",
     "۷۸۹ۺۻۼۿހށނރބޅކއވމފދތލގޏސޑޒޓޔޕޖޗޘޙޚޛޜޝޞޟޠޡޢޣޤޥޱ߀߁߂߃߄߅߆߇߈߉ߊߋߌߍ",
     "ߎߏߐߑߒߓߔߕߖߗߘߙߚߛߜߝߞߟߠߡߢߣߤߥߦߧߨߩߪߴߵߺࢀࢁࢂࢃࢄࢅࢆࢇࢉࢊࢋࢌࢍࢎࢠࢡࢢࢣࢤࢥࢦࢧࢨࢩࢪࢫࢬࢭ",
     "ࢮࢯࢰࢱࢲࢳࢴࢵࢶࢷࢸࢹࢺࢻࢼࢽࢾࢿࣀࣁࣂࣃࣄࣅࣆࣇࣈࣉঀঅআইঈউঊঋঌএঐওঔকখগঘঙচছজঝঞটঠডঢণতথদধ",
     "নপফবভমযরলশষসহঽৎড়ঢ়য়ৠৡ০১২৩৪৫৬৭৮৯ৰৱ৴৵৶৷৸৹ৼઅઆઇઈઉઊઋઌઍએઐઑઓઔકખગઘઙચછ",
     "જઝઞટઠડઢણતથદધનપફબભમયરલળવશષસહઽૐૠૡ૦૧૨૩૪૫૬૭૮૯ૹஃஅஆஇஈஉஊஎஏஐஒஓஔகஙசஜஞ",
     "டணதநனபமயரறலளழவஶஷஸஹௐ௦௧௨௩௪௫௬௭௮௯௰௱௲ಀಅಆಇಈಉಊಋಌಎಏಐಒಓಔಕಖಗಘಙಚಛಜಝಞಟಠಡ",
     "ಢಣತಥದಧನಪಫಬಭಮಯರಱಲಳವಶಷಸಹಽೝೞೠೡ೦೧೨೩೪೫೬೭೮೯ೱೲඅආඇඈඉඊඋඌඍඎඏඐඑඒඓඔඕඖකඛග",
     "ඝඞඟචඡජඣඤඥඦටඨඩඪණඬතථදධනඳපඵබභමඹයරලවශෂසහළෆ෦෧෨෩෪෫෬෭෮෯ກຂຄຆງຈຉຊຌຍຎຏ",
     "ຐຑຒຓດຕຖທຘນບປຜຝພຟຠມຢຣລວຨຩສຫຬອຮຯະາຳຽເແໂໃໄໆ໐໑໒໓໔໕໖໗໘໙ໜໝໞໟྈྉྊྋྌႀ",
     "ႁႎ႐႑႒႓႔႕႖႗႘႙ႠႡႢႣႤႥႦႧႨႩႪႫႬႭႮႯႰႱႲႳႴႵႶႷႸႹႺႻႼႽႾႿჀჁჂჃჄჅჇჍაბგდევზთ",
     "იკლმნოპჟრსტუფქღყშჩცძწჭხჯჰჱჲჳჴჵჶჷჸჹჺჼჽჾჿᆀᆁᆂᆃᆄᆅᆆᆇᆈᆉᆊᆋᆌᆍᆎᆏᆐᆑᆒᆓᆔ",
     "ᆕᆖᆗᆘᆙᆚᆛᆜᆝᆞᆟᆠᆡᆢᆣᆤᆥᆦᆧᆨᆩᆪᆫᆬᆭᆮᆯᆰᆱᆲᆳᆴᆵᆶᆷᆸᆹᆺᆻᆼᆽᆾᆿᇀᇁᇂᇃᇄᇅᇆᇇᇈᇉᇊᇋᇌᇍᇎᇏᇐ",
     "ᇑᇒᇓᇔᇕᇖᇗᇘᇙᇚᇛᇜᇝᇞᇟᇠᇡᇢᇣᇤᇥᇦᇧᇨᇩᇪᇫᇬᇭᇮᇯᇰᇱᇲᇳᇴᇵᇶᇷᇸᇹᇺᇻᇼᇽᇾᇿኀኁኂኃኄኅኆኇኈኊኋኌኍ",
     "ነኑኒናኔንኖኗኘኙኚኛኜኝኞኟአኡኢኣኤእኦኧከኩኪካኬክኮኯኰኲኳኴኵኸኹኺኻኼኽኾዀዂዃዄዅወዉዊዋዌውዎዏዐዑዒ",
     "ዓዔዕዖዘዙዚዛዜዝዞዟዠዡዢዣዤዥዦዧየዩዪያዬይዮዯደዱዲዳዴድዶዷዸዹዺዻዼዽዾዿᎀᎁᎂᎃᎄᎅᎆᎇᎈᎉᎊᎋᎌᎍᎎᎏ",
     "ᎠᎡᎢᎣᎤᎥᎦᎧᎨᎩᎪᎫᎬᎭᎮᎯᎰᎱᎲᎳᎴᎵᎶᎷᎸᎹᎺᎻᎼᎽᎾᎿᏀᏁᏂᏃᏄᏅᏆᏇᏈᏉᏊᏋᏌᏍᏎᏏᏐᏑᏒᏓᏔᏕᏖᏗᏘᏙᏚᏛ",
     "ᏜᏝᏞᏟᏠᏡᏢᏣᏤᏥᏦᏧᏨᏩᏪᏫᏬᏭᏮᏯᏰᏱᏲᏳᏴᏵᏸᏹᏺᏻᏼᏽᒀᒁᒂᒃᒄᒅᒆᒇᒈᒉᒊᒋᒌᒍᒎᒏᒐᒑᒒᒓᒔᒕᒖᒗᒘᒙᒚᒛ",
     "ᒜᒝᒞᒟᒠᒡᒢᒣᒤᒥᒦᒧᒨᒩᒪᒫᒬᒭᒮᒯᒰᒱᒲᒳᒴᒵᒶᒷᒸᒹᒺᒻᒼᒽᒾᒿᓀᓁᓂᓃᓄᓅᓆᓇᓈᓉᓊᓋᓌᓍᓎᓏᓐᓑᓒᓓᓔᓕᓖᓗ",
     "ᓘᓙᓚᓛᓜᓝᓞᓟᓠᓡᓢᓣᓤᓥᓦᓧᓨᓩᓪᓫᓬᓭᓮᓯᓰᓱᓲᓳᓴᓵᓶᓷᓸᓹᓺᓻᓼᓽᓾᓿᖀᖁᖂᖃᖄᖅᖆᖇᖈᖉᖊᖋᖌᖍᖎᖏᖐᖑᖒᖓ",
     "ᖔᖕᖖᖗᖘᖙᖚᖛᖜᖝᖞᖟᖠᖡᖢᖣᖤᖥᖦᖧᖨᖩᖪᖫᖬᖭᖮᖯᖰᖱᖲᖳᖴᖵᖶᖷᖸᖹᖺᖻᖼᖽᖾᖿᗀᗁᗂᗃᗄᗅᗆᗇᗈᗉᗊᗋᗌᗍᗎᗏ",
     "ᗐᗑᗒᗓᗔᗕᗖᗗᗘᗙᗚᗛᗜᗝᗞᗟᗠᗡᗢᗣᗤᗥᗦᗧᗨᗩᗪᗫᗬᗭᗮᗯᗰᗱᗲᗳᗴᗵᗶᗷᗸᗹᗺᗻᗼᗽᗾᗿᚁᚂᚃᚄᚅᚆᚇᚈᚉᚊᚋᚌ",
     "ᚍᚎᚏᚐᚑᚒᚓᚔᚕᚖᚗᚘᚙᚚᚠᚡᚢᚣᚤᚥᚦᚧᚨᚩᚪᚫᚬᚭᚮᚯᚰᚱᚲᚳᚴᚵᚶᚷᚸᚹᚺᚻᚼᚽᚾᚿᛀᛁᛂᛃᛄᛅᛆᛇᛈᛉᛊᛋᛌᛍ",
     "ᛎᛏᛐᛑᛒᛓᛔᛕᛖᛗᛘᛙᛚᛛᛜᛝᛞᛟᛠᛡᛢᛣᛤᛥᛦᛧᛨᛩᛪᛮᛯᛰᛱᛲᛳᛴᛵᛶᛷᛸកខគឃងចឆជឈញដឋឌឍណតថទធន",
     "បផពភមយរលវឝឞសហឡអឣឤឥឦឧឨឩឪឫឬឭឮឯឰឱឲឳៗៜ០១២៣៤៥៦៧៨៩៰៱៲៳៴៵៶៷៸៹ᢀᢁᢂᢃᢄᢇ",
     "ᢈᢉᢊᢋᢌᢍᢎᢏᢐᢑᢒᢓᢔᢕᢖᢗᢘᢙᢚᢛᢜᢝᢞᢟᢠᢡᢢᢣᢤᢥᢦᢧᢨᢪᢰᢱᢲᢳᢴᢵᢶᢷᢸᢹᢺᢻᢼᢽᢾᢿᣀᣁᣂᣃᣄᣅᣆᣇᣈᣉ",
     "ᣊᣋᣌᣍᣎᣏᣐᣑᣒᣓᣔᣕᣖᣗᣘᣙᣚᣛᣜᣝᣞᣟᣠᣡᣢᣣᣤᣥᣦᣧᣨᣩᣪᣫᣬᣭᣮᣯᣰᣱᣲᣳᣴᣵᦀᦁᦂᦃᦄᦅᦆᦇᦈᦉᦊᦋᦌᦍᦎᦏ",
     "ᦐᦑᦒᦓᦔᦕᦖᦗᦘᦙᦚᦛᦜᦝᦞᦟᦠᦡᦢᦣᦤᦥᦦᦧᦨᦩᦪᦫᦰᦱᦲᦳᦴᦵᦶᦷᦸᦹᦺᦻᦼᦽᦾᦿᧀᧁᧂᧃᧄᧅᧆᧇᧈᧉ᧐᧑᧒᧓᧔᧕",
     "᧖᧗᧘᧙᧚᪀᪁᪂᪃᪄᪅᪆᪇᪈᪉᪐᪑᪒᪓᪔᪕᪖᪗᪘᪙ᪧᮃᮄᮅᮆᮇᮈᮉᮊᮋᮌᮍᮎᮏᮐᮑᮒᮓᮔᮕᮖᮗᮘᮙᮚᮛᮜᮝᮞᮟᮠᮮᮯ᮰᮱",
     "᮲᮳᮴᮵᮶᮷᮸᮹ᮺᮻᮼᮽᮾᮿᯀᯁᯂᯃᯄᯅᯆᯇᯈᯉᯊᯋᯌᯍᯎᯏᯐᯑᯒᯓᯔᯕᯖᯗᯘᯙᯚᯛᯜᯝᯞᯟᯠᯡᯢᯣᯤᯥᲀᲁᲂᲃᲄᲅᲆᲇ",
     "ᲈᲐᲑᲒᲓᲔᲕᲖᲗᲘᲙᲚᲛᲜᲝᲞᲟᲠᲡᲢᲣᲤᲥᲦᲧᲨᲩᲪᲫᲬᲭᲮᲯᲰᲱᲲᲳᲴᲵᲶᲷᲸᲹᲺᲽᲾᲿᳩᳪᳫᳬᳮᳯᳰᳱᳲᳳᳵᳶᳺ",
     "ᶀᶁᶂᶃᶄᶅᶆᶇᶈᶉᶊᶋᶌᶍᶎᶏᶐᶑᶒᶓᶔᶕᶖᶗᶘᶙᶚᶛᶜᶝᶞᶟᶠᶡᶢᶣᶤᶥᶦᶧᶨᶩᶪᶫᶬᶭᶮᶯᶰᶱᶲᶳᶴᶵᶶᶷᶸᶹᶺᶻ",
     "ᶼᶽᶾᶿẀẁẂẃẄẅẆẇẈẉẊẋẌẍẎẏẐẑẒẓẔẕẖẗẘẙẚẛẜẝẞẟẠạẢảẤấẦầẨẩẪẫẬậẮắẰằẲẳẴẵẶặ",
     "ẸẹẺẻẼẽẾếỀềỂểỄễỆệỈỉỊịỌọỎỏỐốỒồỔổỖỗỘộỚớỜờỞởỠỡỢợỤụỦủỨứỪừỬửỮữỰựỲỳ",
     "ỴỵỶỷỸỹỺỻỼỽỾỿᾀᾁᾂᾃᾄᾅᾆᾇᾈᾉᾊᾋᾌᾍᾎᾏᾐᾑᾒᾓᾔᾕᾖᾗᾘᾙᾚᾛᾜᾝᾞᾟᾠᾡᾢᾣᾤᾥᾦᾧᾨᾩᾪᾫᾬᾭᾮᾯ",
     "ᾰᾱᾲᾳᾴᾶᾷᾸᾹᾺΆᾼιῂῃῄῆῇῈΈῊΉῌῐῑῒΐῖῗῘῙῚΊῠῡῢΰῤῥῦῧῨῩῪΎῬῲῳῴῶῷῸΌῺΏῼ₀₁₂₃",
     "₄₅₆₇₈₉ₐₑₒₓₔₕₖₗₘₙₚₛₜↀↁↂↃↄↅↆↇↈ↉⒀⒁⒂⒃⒄⒅⒆⒇⒈⒉⒊⒋⒌⒍⒎⒏⒐⒑⒒⒓⒔⒕⒖⒗⒘⒙⒚⒛⓪⓫⓬",
     "⓭⓮⓯⓰⓱⓲⓳⓴⓵⓶⓷⓸⓹⓺⓻⓼⓽⓾⓿➀➁➂➃➄➅➆➇➈➉➊➋➌➍➎➏➐➑➒➓ⲀⲁⲂⲃⲄⲅⲆⲇⲈⲉⲊⲋⲌⲍⲎⲏⲐⲑⲒⲓⲔ",
     "ⲕⲖⲗⲘⲙⲚⲛⲜⲝⲞⲟⲠⲡⲢⲣⲤⲥⲦⲧⲨⲩⲪⲫⲬⲭⲮⲯⲰⲱⲲⲳⲴⲵⲶⲷⲸⲹⲺⲻⲼⲽⲾⲿⳀⳁⳂⳃⳄⳅⳆⳇⳈⳉⳊⳋⳌⳍⳎⳏⳐ",
     "ⳑⳒⳓⳔⳕⳖⳗⳘⳙⳚⳛⳜⳝⳞⳟⳠⳡⳢⳣⳤⳫⳬⳭⳮⳲⳳ⳽ⶀⶁⶂⶃⶄⶅⶆⶇⶈⶉⶊⶋⶌⶍⶎⶏⶐⶑⶒⶓⶔⶕⶖⶠⶡⶢⶣⶤⶥⶦⶨⶩⶪ",
     "ⶫⶬⶭⶮⶰⶱⶲⶳⶴⶵⶶⶸⶹⶺⶻⶼⶽⶾⷀⷁⷂⷃⷄⷅⷆⷈⷉⷊⷋⷌⷍⷎⷐⷑⷒⷓⷔⷕⷖⷘⷙⷚⷛⷜⷝⷞむめもゃやゅゆょよらりるれろ",
     "ゎわゐゑをんゔゕゖゝゞゟァアィイゥウェエォオカガキギクグケゲコゴサザシジスズセゼソゾタダチヂッツヅテデトドナニヌネノハバ",
     "パヒビピフブプヘベペホボポマミムメモャヤュユョヨラリルレロヮワヰヱヲンヴヵヶヷヸヹヺーヽヾヿㆀㆁㆂㆃㆄㆅㆆㆇㆈㆉㆊㆋㆌㆍ",
     "ㆎ㆒㆓㆔㆕ㆠㆡㆢㆣㆤㆥㆦㆧㆨㆩㆪㆫㆬㆭㆮㆯㆰㆱㆲㆳㆴㆵㆶㆷㆸㆹㆺㆻㆼㆽㆾㆿㇰㇱㇲㇳㇴㇵㇶㇷㇸㇹㇺㇻㇼㇽㇾㇿ㊀㊁㊂㊃㊄㊅㊆",
     "㊇㊈㊉㊱㊲㊳㊴㊵㊶㊷㊸㊹㊺㊻㊼㊽㊾㊿㒀㒁㒂㒃㒄㒅㒆㒇㒈㒉㒊㒋㒌㒍㒎㒏㒐㒑㒒㒓㒔㒕㒖㒗㒘㒙㒚㒛㒜㒝㒞㒟㒠㒡㒢㒣㒤㒥㒦㒧㒨㒩",
     "㒪㒫㒬㒭㒮㒯㒰㒱㒲㒳㒴㒵㒶㒷㒸㒹㒺㒻㒼㒽㒾㒿㓀㓁㓂㓃㓄㓅㓆㓇㓈㓉㓊㓋㓌㓍㓎㓏㓐㓑㓒㓓㓔㓕㓖㓗㓘㓙㓚㓛㓜㓝㓞㓟㓠㓡㓢㓣㓤㓥",
     "㓦㓧㓨㓩㓪㓫㓬㓭㓮㓯㓰㓱㓲㓳㓴㓵㓶㓷㓸㓹㓺㓻㓼㓽㓾㓿㖀㖁㖂㖃㖄㖅㖆㖇㖈㖉㖊㖋㖌㖍㖎㖏㖐㖑㖒㖓㖔㖕㖖㖗㖘㖙㖚㖛㖜㖝㖞㖟㖠㖡",
     "㖢㖣㖤㖥㖦㖧㖨㖩㖪㖫㖬㖭㖮㖯㖰㖱㖲㖳㖴㖵㖶㖷㖸㖹㖺㖻㖼㖽㖾㖿㗀㗁㗂㗃㗄㗅㗆㗇㗈㗉㗊㗋㗌㗍㗎㗏㗐㗑㗒㗓㗔㗕㗖㗗㗘㗙㗚㗛㗜㗝",
     "㗞㗟㗠㗡㗢㗣㗤㗥㗦㗧㗨㗩㗪㗫㗬㗭㗮㗯㗰㗱㗲㗳㗴㗵㗶㗷㗸㗹㗺㗻㗼㗽㗾㗿㚀㚁㚂㚃㚄㚅㚆㚇㚈㚉㚊㚋㚌㚍㚎㚏㚐㚑㚒㚓㚔㚕㚖㚗㚘㚙",
     "㚚㚛㚜㚝㚞㚟㚠㚡㚢㚣㚤㚥㚦㚧㚨㚩㚪㚫㚬㚭㚮㚯㚰㚱㚲㚳㚴㚵㚶㚷㚸㚹㚺㚻㚼㚽㚾㚿㛀㛁㛂㛃㛄㛅㛆㛇㛈㛉㛊㛋㛌㛍㛎㛏㛐㛑㛒㛓㛔㛕",
     "㛖㛗㛘㛙㛚㛛㛜㛝㛞㛟㛠㛡㛢㛣㛤㛥㛦㛧㛨㛩㛪㛫㛬㛭㛮㛯㛰㛱㛲㛳㛴㛵㛶㛷㛸㛹㛺㛻㛼㛽㛾㛿㞀㞁㞂㞃㞄㞅㞆㞇㞈㞉㞊㞋㞌㞍㞎㞏㞐㞑",
     "㞒㞓㞔㞕㞖㞗㞘㞙㞚㞛㞜㞝㞞㞟㞠㞡㞢㞣㞤㞥㞦㞧㞨㞩㞪㞫㞬㞭㞮㞯㞰㞱㞲㞳㞴㞵㞶㞷㞸㞹㞺㞻㞼㞽㞾㞿㟀㟁㟂㟃㟄㟅㟆㟇㟈㟉㟊㟋㟌㟍",
     "㟎㟏㟐㟑㟒㟓㟔㟕㟖㟗㟘㟙㟚㟛㟜㟝㟞㟟㟠㟡㟢㟣㟤㟥㟦㟧㟨㟩㟪㟫㟬㟭㟮㟯㟰㟱㟲㟳㟴㟵㟶㟷㟸㟹㟺㟻㟼㟽㟾㟿㢀㢁㢂㢃㢄㢅㢆㢇㢈㢉",
     "㢊㢋㢌㢍㢎㢏㢐㢑㢒㢓㢔㢕㢖㢗㢘㢙㢚㢛㢜㢝㢞㢟㢠㢡㢢㢣㢤㢥㢦㢧㢨㢩㢪㢫㢬㢭㢮㢯㢰㢱㢲㢳㢴㢵㢶㢷㢸㢹㢺㢻㢼㢽㢾㢿㣀㣁㣂㣃㣄㣅",
     "㣆㣇㣈㣉㣊㣋㣌㣍㣎㣏㣐㣑㣒㣓㣔㣕㣖㣗㣘㣙㣚㣛㣜㣝㣞㣟㣠㣡㣢㣣㣤㣥㣦㣧㣨㣩㣪㣫㣬㣭㣮㣯㣰㣱㣲㣳㣴㣵㣶㣷㣸㣹㣺㣻㣼㣽㣾㣿㦀㦁",
     "㦂㦃㦄㦅㦆㦇㦈㦉㦊㦋㦌㦍㦎㦏㦐㦑㦒㦓㦔㦕㦖㦗㦘㦙㦚㦛㦜㦝㦞㦟㦠㦡㦢㦣㦤㦥㦦㦧㦨㦩㦪㦫㦬㦭㦮㦯㦰㦱㦲㦳㦴㦵㦶㦷㦸㦹㦺㦻㦼㦽",
     "㦾㦿㧀㧁㧂㧃㧄㧅㧆㧇㧈㧉㧊㧋㧌㧍㧎㧏㧐㧑㧒㧓㧔㧕㧖㧗㧘㧙㧚㧛㧜㧝㧞㧟㧠㧡㧢㧣㧤㧥㧦㧧㧨㧩㧪㧫㧬㧭㧮㧯㧰㧱㧲㧳㧴㧵㧶㧷㧸㧹",
     "㧺㧻㧼㧽㧾㧿㪀㪁㪂㪃㪄㪅㪆㪇㪈㪉㪊㪋㪌㪍㪎㪏㪐㪑㪒㪓㪔㪕㪖㪗㪘㪙㪚㪛㪜㪝㪞㪟㪠㪡㪢㪣㪤㪥㪦㪧㪨㪩㪪㪫㪬㪭㪮㪯㪰㪱㪲㪳㪴㪵",
     "㪶㪷㪸㪹㪺㪻㪼㪽㪾㪿㫀㫁㫂㫃㫄㫅㫆㫇㫈㫉㫊㫋㫌㫍㫎㫏㫐㫑㫒㫓㫔㫕㫖㫗㫘㫙㫚㫛㫜㫝㫞㫟㫠㫡㫢㫣㫤㫥㫦㫧㫨㫩㫪㫫㫬㫭㫮㫯㫰㫱",
     "㫲㫳㫴㫵㫶㫷㫸㫹㫺㫻㫼㫽㫾㫿㮀㮁㮂㮃㮄㮅㮆㮇㮈㮉㮊㮋㮌㮍㮎㮏㮐㮑㮒㮓㮔㮕㮖㮗㮘㮙㮚㮛㮜㮝㮞㮟㮠㮡㮢㮣㮤㮥㮦㮧㮨㮩㮪㮫㮬㮭",
     "㮮㮯㮰㮱㮲㮳㮴㮵㮶㮷㮸㮹㮺㮻㮼㮽㮾㮿㯀㯁㯂㯃㯄㯅㯆㯇㯈㯉㯊㯋㯌㯍㯎㯏㯐㯑㯒㯓㯔㯕㯖㯗㯘㯙㯚㯛㯜㯝㯞㯟㯠㯡㯢㯣㯤㯥㯦㯧㯨㯩",
     "㯪㯫㯬㯭㯮㯯㯰㯱㯲㯳㯴㯵㯶㯷㯸㯹㯺㯻㯼㯽㯾㯿㲀㲁㲂㲃㲄㲅㲆㲇㲈㲉㲊㲋㲌㲍㲎㲏㲐㲑㲒㲓㲔㲕㲖㲗㲘㲙㲚㲛㲜㲝㲞㲟㲠㲡㲢㲣㲤㲥",
     "㲦㲧㲨㲩㲪㲫㲬㲭㲮㲯㲰㲱㲲㲳㲴㲵㲶㲷㲸㲹㲺㲻㲼㲽㲾㲿㳀㳁㳂㳃㳄㳅㳆㳇㳈㳉㳊㳋㳌㳍㳎㳏㳐㳑㳒㳓㳔㳕㳖㳗㳘㳙㳚㳛㳜㳝㳞㳟㳠㳡",
     "㳢㳣㳤㳥㳦㳧㳨㳩㳪㳫㳬㳭㳮㳯㳰㳱㳲㳳㳴㳵㳶㳷㳸㳹㳺㳻㳼㳽㳾㳿㶀㶁㶂㶃㶄㶅㶆㶇㶈㶉㶊㶋㶌㶍㶎㶏㶐㶑㶒㶓㶔㶕㶖㶗㶘㶙㶚㶛㶜㶝",
     "㶞㶟㶠㶡㶢㶣㶤㶥㶦㶧㶨㶩㶪㶫㶬㶭㶮㶯㶰㶱㶲㶳㶴㶵㶶㶷㶸㶹㶺㶻㶼㶽㶾㶿㷀㷁㷂㷃㷄㷅㷆㷇㷈㷉㷊㷋㷌㷍㷎㷏㷐㷑㷒㷓㷔㷕㷖㷗㷘㷙",
     "㷚㷛㷜㷝㷞㷟㷠㷡㷢㷣㷤㷥㷦㷧㷨㷩㷪㷫㷬㷭㷮㷯㷰㷱㷲㷳㷴㷵㷶㷷㷸㷹㷺㷻㷼㷽㷾㷿㺀㺁㺂㺃㺄㺅㺆㺇㺈㺉㺊㺋㺌㺍㺎㺏㺐㺑㺒㺓㺔㺕",
     "㺖㺗㺘㺙㺚㺛㺜㺝㺞㺟㺠㺡㺢㺣㺤㺥㺦㺧㺨㺩㺪㺫㺬㺭㺮㺯㺰㺱㺲㺳㺴㺵㺶㺷㺸㺹㺺㺻㺼㺽㺾㺿㻀㻁㻂㻃㻄㻅㻆㻇㻈㻉㻊㻋㻌㻍㻎㻏㻐㻑",
     "㻒㻓㻔㻕㻖㻗㻘㻙㻚㻛㻜㻝㻞㻟㻠㻡㻢㻣㻤㻥㻦㻧㻨㻩㻪㻫㻬㻭㻮㻯㻰㻱㻲㻳㻴㻵㻶㻷㻸㻹㻺㻻㻼㻽㻾㻿㾀㾁㾂㾃㾄㾅㾆㾇㾈㾉㾊㾋㾌㾍",
     "㾎㾏㾐㾑㾒㾓㾔㾕㾖㾗㾘㾙㾚㾛㾜㾝㾞㾟㾠㾡㾢㾣㾤㾥㾦㾧㾨㾩㾪㾫㾬㾭㾮㾯㾰㾱㾲㾳㾴㾵㾶㾷㾸㾹㾺㾻㾼㾽㾾㾿㿀㿁㿂㿃㿄㿅㿆㿇㿈㿉",
     "㿊㿋㿌㿍㿎㿏㿐㿑㿒㿓㿔㿕㿖㿗㿘㿙㿚㿛㿜㿝㿞㿟㿠㿡㿢㿣㿤㿥㿦㿧㿨㿩㿪㿫㿬㿭㿮㿯㿰㿱㿲㿳㿴㿵㿶㿷㿸㿹㿺㿻㿼㿽㿾㿿䂀䂁䂂䂃䂄䂅",
     "䂆䂇䂈䂉䂊䂋䂌䂍䂎䂏䂐䂑䂒䂓䂔䂕䂖䂗䂘䂙䂚䂛䂜䂝䂞䂟䂠䂡䂢䂣䂤䂥䂦䂧䂨䂩䂪䂫䂬䂭䂮䂯䂰䂱䂲䂳䂴䂵䂶䂷䂸䂹䂺䂻䂼䂽䂾䂿䃀䃁",
     "䃂䃃䃄䃅䃆䃇䃈䃉䃊䃋䃌䃍䃎䃏䃐䃑䃒䃓䃔䃕䃖䃗䃘䃙䃚䃛䃜䃝䃞䃟䃠䃡䃢䃣䃤䃥䃦䃧䃨䃩䃪䃫䃬䃭䃮䃯䃰䃱䃲䃳䃴䃵䃶䃷䃸䃹䃺䃻䃼䃽",
     "䃾䃿䆀䆁䆂䆃䆄䆅䆆䆇䆈䆉䆊䆋䆌䆍䆎䆏䆐䆑䆒䆓䆔䆕䆖䆗䆘䆙䆚䆛䆜䆝䆞䆟䆠䆡䆢䆣䆤䆥䆦䆧䆨䆩䆪䆫䆬䆭䆮䆯䆰䆱䆲䆳䆴䆵䆶䆷䆸䆹",
     "䆺䆻䆼䆽䆾䆿䇀䇁䇂䇃䇄䇅䇆䇇䇈䇉䇊䇋䇌䇍䇎䇏䇐䇑䇒䇓䇔䇕䇖䇗䇘䇙䇚䇛䇜䇝䇞䇟䇠䇡䇢䇣䇤䇥䇦䇧䇨䇩䇪䇫䇬䇭䇮䇯䇰䇱䇲䇳䇴䇵",
     "䇶䇷䇸䇹䇺䇻䇼䇽䇾䇿䊀䊁䊂䊃䊄䊅䊆䊇䊈䊉䊊䊋䊌䊍䊎䊏䊐䊑䊒䊓䊔䊕䊖䊗䊘䊙䊚䊛䊜䊝䊞䊟䊠䊡䊢䊣䊤䊥䊦䊧䊨䊩䊪䊫䊬䊭䊮䊯䊰䊱",
     "䊲䊳䊴䊵䊶䊷䊸䊹䊺䊻䊼䊽䊾䊿䋀䋁䋂䋃䋄䋅䋆䋇䋈䋉䋊䋋䋌䋍䋎䋏䋐䋑䋒䋓䋔䋕䋖䋗䋘䋙䋚䋛䋜䋝䋞䋟䋠䋡䋢䋣䋤䋥䋦䋧䋨䋩䋪䋫䋬䋭",
     "䋮䋯䋰䋱䋲䋳䋴䋵䋶䋷䋸䋹䋺䋻䋼䋽䋾䋿䎀䎁䎂䎃䎄䎅䎆䎇䎈䎉䎊䎋䎌䎍䎎䎏䎐䎑䎒䎓䎔䎕䎖䎗䎘䎙䎚䎛䎜䎝䎞䎟䎠䎡䎢䎣䎤䎥䎦䎧䎨䎩",
     "䎪䎫䎬䎭䎮䎯䎰䎱䎲䎳䎴䎵䎶䎷䎸䎹䎺䎻䎼䎽䎾䎿䏀䏁䏂䏃䏄䏅䏆䏇䏈䏉䏊䏋䏌䏍䏎䏏䏐䏑䏒䏓䏔䏕䏖䏗䏘䏙䏚䏛䏜䏝䏞䏟䏠䏡䏢䏣䏤䏥",
     "䏦䏧䏨䏩䏪䏫䏬䏭䏮䏯䏰䏱䏲䏳䏴䏵䏶䏷䏸䏹䏺䏻䏼䏽䏾䏿䒀䒁䒂䒃䒄䒅䒆䒇䒈䒉䒊䒋䒌䒍䒎䒏䒐䒑䒒䒓䒔䒕䒖䒗䒘䒙䒚䒛䒜䒝䒞䒟䒠䒡",
     "䒢䒣䒤䒥䒦䒧䒨䒩䒪䒫䒬䒭䒮䒯䒰䒱䒲䒳䒴䒵䒶䒷䒸䒹䒺䒻䒼䒽䒾䒿䓀䓁䓂䓃䓄䓅䓆䓇䓈䓉䓊䓋䓌䓍䓎䓏䓐䓑䓒䓓䓔䓕䓖䓗䓘䓙䓚䓛䓜䓝",
     "䓞䓟䓠䓡䓢䓣䓤䓥䓦䓧䓨䓩䓪䓫䓬䓭䓮䓯䓰䓱䓲䓳䓴䓵䓶䓷䓸䓹䓺䓻䓼䓽䓾䓿䖀䖁䖂䖃䖄䖅䖆䖇䖈䖉䖊䖋䖌䖍䖎䖏䖐䖑䖒䖓䖔䖕䖖䖗䖘䖙",
     "䖚䖛䖜䖝䖞䖟䖠䖡䖢䖣䖤䖥䖦䖧䖨䖩䖪䖫䖬䖭䖮䖯䖰䖱䖲䖳䖴䖵䖶䖷䖸䖹䖺䖻䖼䖽䖾䖿䗀䗁䗂䗃䗄䗅䗆䗇䗈䗉䗊䗋䗌䗍䗎䗏䗐䗑䗒䗓䗔䗕",
     "䗖䗗䗘䗙䗚䗛䗜䗝䗞䗟䗠䗡䗢䗣䗤䗥䗦䗧䗨䗩䗪䗫䗬䗭䗮䗯䗰䗱䗲䗳䗴䗵䗶䗷䗸䗹䗺䗻䗼䗽䗾䗿䚀䚁䚂䚃䚄䚅䚆䚇䚈䚉䚊䚋䚌䚍䚎䚏䚐䚑",
     "䚒䚓䚔䚕䚖䚗䚘䚙䚚䚛䚜䚝䚞䚟䚠䚡䚢䚣䚤䚥䚦䚧䚨䚩䚪䚫䚬䚭䚮䚯䚰䚱䚲䚳䚴䚵䚶䚷䚸䚹䚺䚻䚼䚽䚾䚿䛀䛁䛂䛃䛄䛅䛆䛇䛈䛉䛊䛋䛌䛍",
     "䛎䛏䛐䛑䛒䛓䛔䛕䛖䛗䛘䛙䛚䛛䛜䛝䛞䛟䛠䛡䛢䛣䛤䛥䛦䛧䛨䛩䛪䛫䛬䛭䛮䛯䛰䛱䛲䛳䛴䛵䛶䛷䛸䛹䛺䛻䛼䛽䛾䛿䞀䞁䞂䞃䞄䞅䞆䞇䞈䞉",
     "䞊䞋䞌䞍䞎䞏䞐䞑䞒䞓䞔䞕䞖䞗䞘䞙䞚䞛䞜䞝䞞䞟䞠䞡䞢䞣䞤䞥䞦䞧䞨䞩䞪䞫䞬䞭䞮䞯䞰䞱䞲䞳䞴䞵䞶䞷䞸䞹䞺䞻䞼䞽䞾䞿䟀䟁䟂䟃䟄䟅",
     "䟆䟇䟈䟉䟊䟋䟌䟍䟎䟏䟐䟑䟒䟓䟔䟕䟖䟗䟘䟙䟚䟛䟜䟝䟞䟟䟠䟡䟢䟣䟤䟥䟦䟧䟨䟩䟪䟫䟬䟭䟮䟯䟰䟱䟲䟳䟴䟵䟶䟷䟸䟹䟺䟻䟼䟽䟾䟿䢀䢁",
     "䢂䢃䢄䢅䢆䢇䢈䢉䢊䢋䢌䢍䢎䢏䢐䢑䢒䢓䢔䢕䢖䢗䢘䢙䢚䢛䢜䢝䢞䢟䢠䢡䢢䢣䢤䢥䢦䢧䢨䢩䢪䢫䢬䢭䢮䢯䢰䢱䢲䢳䢴䢵䢶䢷䢸䢹䢺䢻䢼䢽",
     "䢾䢿䣀䣁䣂䣃䣄䣅䣆䣇䣈䣉䣊䣋䣌䣍䣎䣏䣐䣑䣒䣓䣔䣕䣖䣗䣘䣙䣚䣛䣜䣝䣞䣟䣠䣡䣢䣣䣤䣥䣦䣧䣨䣩䣪䣫䣬䣭䣮䣯䣰䣱䣲䣳䣴䣵䣶䣷䣸䣹",
     "䣺䣻䣼䣽䣾䣿䦀䦁䦂䦃䦄䦅䦆䦇䦈䦉䦊䦋䦌䦍䦎䦏䦐䦑䦒䦓䦔䦕䦖䦗䦘䦙䦚䦛䦜䦝䦞䦟䦠䦡䦢䦣䦤䦥䦦䦧䦨䦩䦪䦫䦬䦭䦮䦯䦰䦱䦲䦳䦴䦵",
     "䦶䦷䦸䦹䦺䦻䦼䦽䦾䦿䧀䧁䧂䧃䧄䧅䧆䧇䧈䧉䧊䧋䧌䧍䧎䧏䧐䧑䧒䧓䧔䧕䧖䧗䧘䧙䧚䧛䧜䧝䧞䧟䧠䧡䧢䧣䧤䧥䧦䧧䧨䧩䧪䧫䧬䧭䧮䧯䧰䧱",
     "䧲䧳䧴䧵䧶䧷䧸䧹䧺䧻䧼䧽䧾䧿䪀䪁䪂䪃䪄䪅䪆䪇䪈䪉䪊䪋䪌䪍䪎䪏䪐䪑䪒䪓䪔䪕䪖䪗䪘䪙䪚䪛䪜䪝䪞䪟䪠䪡䪢䪣䪤䪥䪦䪧䪨䪩䪪䪫䪬䪭",
     "䪮䪯䪰䪱䪲䪳䪴䪵䪶䪷䪸䪹䪺䪻䪼䪽䪾䪿䫀䫁䫂䫃䫄䫅䫆䫇䫈䫉䫊䫋䫌䫍䫎䫏䫐䫑䫒䫓䫔䫕䫖䫗䫘䫙䫚䫛䫜䫝䫞䫟䫠䫡䫢䫣䫤䫥䫦䫧䫨䫩",
     "䫪䫫䫬䫭䫮䫯䫰䫱䫲䫳䫴䫵䫶䫷䫸䫹䫺䫻䫼䫽䫾䫿䮀䮁䮂䮃䮄䮅䮆䮇䮈䮉䮊䮋䮌䮍䮎䮏䮐䮑䮒䮓䮔䮕䮖䮗䮘䮙䮚䮛䮜䮝䮞䮟䮠䮡䮢䮣䮤䮥",
     "䮦䮧䮨䮩䮪䮫䮬䮭䮮䮯䮰䮱䮲䮳䮴䮵䮶䮷䮸䮹䮺䮻䮼䮽䮾䮿䯀䯁䯂䯃䯄䯅䯆䯇䯈䯉䯊䯋䯌䯍䯎䯏䯐䯑䯒䯓䯔䯕䯖䯗䯘䯙䯚䯛䯜䯝䯞䯟䯠䯡",
     "䯢䯣䯤䯥䯦䯧䯨䯩䯪䯫䯬䯭䯮䯯䯰䯱䯲䯳䯴䯵䯶䯷䯸䯹䯺䯻䯼䯽䯾䯿䲀䲁䲂䲃䲄䲅䲆䲇䲈䲉䲊䲋䲌䲍䲎䲏䲐䲑䲒䲓䲔䲕䲖䲗䲘䲙䲚䲛䲜䲝",
     "䲞䲟䲠䲡䲢䲣䲤䲥䲦䲧䲨䲩䲪䲫䲬䲭䲮䲯䲰䲱䲲䲳䲴䲵䲶䲷䲸䲹䲺䲻䲼䲽䲾䲿䳀䳁䳂䳃䳄䳅䳆䳇䳈䳉䳊䳋䳌䳍䳎䳏䳐䳑䳒䳓䳔䳕䳖䳗䳘䳙",
     "䳚䳛䳜䳝䳞䳟䳠䳡䳢䳣䳤䳥䳦䳧䳨䳩䳪䳫䳬䳭䳮䳯䳰䳱䳲䳳䳴䳵䳶䳷䳸䳹䳺䳻䳼䳽䳾䳿䶀䶁䶂䶃䶄䶅䶆䶇䶈䶉䶊䶋䶌䶍䶎䶏䶐䶑䶒䶓䶔䶕",
     "䶖䶗䶘䶙䶚䶛䶜䶝䶞䶟䶠䶡䶢䶣䶤䶥䶦䶧䶨䶩䶪䶫䶬䶭䶮䶯䶰䶱䶲䶳䶴䶵䶶䶷䶸䶹䶺䶻䶼䶽䶾䶿亀亁亂亃亄亅了亇予争亊事二亍于亏亐云",
     "互亓五井亖亗亘亙亚些亜亝亞亟亠亡亢亣交亥亦产亨亩亪享京亭亮亯亰亱亲亳亴亵亶亷亸亹人亻亼亽亾亿什仁仂仃仄仅仆仇仈仉今介仌仍",
     "从仏仐仑仒仓仔仕他仗付仙仚仛仜仝仞仟仠仡仢代令以仦仧仨仩仪仫们仭仮仯仰仱仲仳仴仵件价仸仹仺任仼份仾仿侀侁侂侃侄侅來侇侈侉",
     "侊例侌侍侎侏侐侑侒侓侔侕侖侗侘侙侚供侜依侞侟侠価侢侣侤侥侦侧侨侩侪侫侬侭侮侯侰侱侲侳侴侵侶侷侸侹侺侻侼侽侾便俀俁係促俄俅",
     "俆俇俈俉俊俋俌俍俎俏俐俑俒俓俔俕俖俗俘俙俚俛俜保俞俟俠信俢俣俤俥俦俧俨俩俪俫俬俭修俯俰俱俲俳俴俵俶俷俸俹俺俻俼俽俾俿傀傁",
     "傂傃傄傅傆傇傈傉傊傋傌傍傎傏傐傑傒傓傔傕傖傗傘備傚傛傜傝傞傟傠傡傢傣傤傥傦傧储傩傪傫催傭傮傯傰傱傲傳傴債傶傷傸傹傺傻傼傽",
     "傾傿僀僁僂僃僄僅僆僇僈僉僊僋僌働僎像僐僑僒僓僔僕僖僗僘僙僚僛僜僝僞僟僠僡僢僣僤僥僦僧僨僩僪僫僬僭僮僯僰僱僲僳僴僵僶僷僸價",
     "僺僻僼僽僾僿冀冁冂冃冄内円冇冈冉冊冋册再冎冏冐冑冒冓冔冕冖冗冘写冚军农冝冞冟冠冡冢冣冤冥冦冧冨冩冪冫冬冭冮冯冰冱冲决冴况",
     "冶冷冸冹冺冻冼冽冾冿净凁凂凃凄凅准凇凈凉凊凋凌凍凎减凐凑凒凓凔凕凖凗凘凙凚凛凜凝凞凟几凡凢凣凤凥処凧凨凩凪凫凬凭凮凯凰凱",
     "凲凳凴凵凶凷凸凹出击凼函凾凿劀劁劂劃劄劅劆劇劈劉劊劋劌劍劎劏劐劑劒劓劔劕劖劗劘劙劚力劜劝办功加务劢劣劤劥劦劧动助努劫劬劭",
     "劮劯劰励劲劳労劵劶劷劸効劺劻劼劽劾势勀勁勂勃勄勅勆勇勈勉勊勋勌勍勎勏勐勑勒勓勔動勖勗勘務勚勛勜勝勞募勠勡勢勣勤勥勦勧勨勩",
     "勪勫勬勭勮勯勰勱勲勳勴勵勶勷勸勹勺勻勼勽勾勿厀厁厂厃厄厅历厇厈厉厊压厌厍厎厏厐厑厒厓厔厕厖厗厘厙厚厛厜厝厞原厠厡厢厣厤厥",
     "厦厧厨厩厪厫厬厭厮厯厰厱厲厳厴厵厶厷厸厹厺去厼厽厾县叀叁参參叄叅叆叇又叉及友双反収叏叐发叒叓叔叕取受变叙叚叛叜叝叞叟叠叡",
     "叢口古句另叧叨叩只叫召叭叮可台叱史右叴叵叶号司叹叺叻叼叽叾叿咀咁咂咃咄咅咆咇咈咉咊咋和咍咎咏咐咑咒咓咔咕咖咗咘咙咚咛咜咝",
     "咞咟咠咡咢咣咤咥咦咧咨咩咪咫咬咭咮咯咰咱咲咳咴咵咶咷咸咹咺咻咼咽咾咿哀品哂哃哄哅哆哇哈哉哊哋哌响哎哏哐哑哒哓哔哕哖哗哘哙",
     "哚哛哜哝哞哟哠員哢哣哤哥哦哧哨哩哪哫哬哭哮哯哰哱哲哳哴哵哶哷哸哹哺哻哼哽哾哿喀喁喂喃善喅喆喇喈喉喊喋喌喍喎喏喐喑喒喓喔喕",
     "喖喗喘喙喚喛喜喝喞喟喠喡喢喣喤喥喦喧喨喩喪喫喬喭單喯喰喱喲喳喴喵営喷喸喹喺喻喼喽喾喿嗀嗁嗂嗃嗄嗅嗆嗇嗈嗉嗊嗋嗌嗍嗎嗏嗐嗑",
     "嗒嗓嗔嗕嗖嗗嗘嗙嗚嗛嗜嗝嗞嗟嗠嗡嗢嗣嗤嗥嗦嗧嗨嗩嗪嗫嗬嗭嗮嗯嗰嗱嗲嗳嗴嗵嗶嗷嗸嗹嗺嗻嗼嗽嗾嗿嚀嚁嚂嚃嚄嚅嚆嚇嚈嚉嚊嚋嚌嚍",
     "嚎嚏嚐嚑嚒嚓嚔嚕嚖嚗嚘嚙嚚嚛嚜嚝嚞嚟嚠嚡嚢嚣嚤嚥嚦嚧嚨嚩嚪嚫嚬嚭嚮嚯嚰嚱嚲嚳嚴嚵嚶嚷嚸嚹嚺嚻嚼嚽嚾嚿囀囁囂囃囄囅囆囇囈囉",
     "囊囋囌囍囎囏囐囑囒囓囔囕囖囗囘囙囚四囜囝回囟因囡团団囤囥囦囧囨囩囪囫囬园囮囯困囱囲図围囵囶囷囸囹固囻囼国图囿垀垁垂垃垄垅",
     "垆垇垈垉垊型垌垍垎垏垐垑垒垓垔垕垖垗垘垙垚垛垜垝垞垟垠垡垢垣垤垥垦垧垨垩垪垫垬垭垮垯垰垱垲垳垴垵垶垷垸垹垺垻垼垽垾垿埀埁",
     "埂埃埄埅埆埇埈埉埊埋埌埍城埏埐埑埒埓埔埕埖埗埘埙埚埛埜埝埞域埠埡埢埣埤埥埦埧埨埩埪埫埬埭埮埯埰埱埲埳埴埵埶執埸培基埻埼埽",
     "埾埿墀墁墂境墄墅墆墇墈墉墊墋墌墍墎墏墐墑墒墓墔墕墖増墘墙墚墛墜墝增墟墠墡墢墣墤墥墦墧墨墩墪墫墬墭墮墯墰墱墲墳墴墵墶墷墸墹",
     "墺墻墼墽墾墿壀壁壂壃壄壅壆壇壈壉壊壋壌壍壎壏壐壑壒壓壔壕壖壗壘壙壚壛壜壝壞壟壠壡壢壣壤壥壦壧壨壩壪士壬壭壮壯声壱売壳壴壵",
     "壶壷壸壹壺壻壼壽壾壿妀妁如妃妄妅妆妇妈妉妊妋妌妍妎妏妐妑妒妓妔妕妖妗妘妙妚妛妜妝妞妟妠妡妢妣妤妥妦妧妨妩妪妫妬妭妮妯妰妱",
     "妲妳妴妵妶妷妸妹妺妻妼妽妾妿姀姁姂姃姄姅姆姇姈姉姊始姌姍姎姏姐姑姒姓委姕姖姗姘姙姚姛姜姝姞姟姠姡姢姣姤姥姦姧姨姩姪姫姬姭",
     "姮姯姰姱姲姳姴姵姶姷姸姹姺姻姼姽姾姿媀媁媂媃媄媅媆媇媈媉媊媋媌媍媎媏媐媑媒媓媔媕媖媗媘媙媚媛媜媝媞媟媠媡媢媣媤媥媦媧媨媩",
     "媪媫媬媭媮媯媰媱媲媳媴媵媶媷媸媹媺媻媼媽媾媿嫀嫁嫂嫃嫄嫅嫆嫇嫈嫉嫊嫋嫌嫍嫎嫏嫐嫑嫒嫓嫔嫕嫖嫗嫘嫙嫚嫛嫜嫝嫞嫟嫠嫡嫢嫣嫤嫥",
     "嫦嫧嫨嫩嫪嫫嫬嫭嫮嫯嫰嫱嫲嫳嫴嫵嫶嫷嫸嫹嫺嫻嫼嫽嫾嫿宀宁宂它宄宅宆宇守安宊宋完宍宎宏宐宑宒宓宔宕宖宗官宙定宛宜宝实実宠审",
     "客宣室宥宦宧宨宩宪宫宬宭宮宯宰宱宲害宴宵家宷宸容宺宻宼宽宾宿寀寁寂寃寄寅密寇寈寉寊寋富寍寎寏寐寑寒寓寔寕寖寗寘寙寚寛寜寝",
     "寞察寠寡寢寣寤寥實寧寨審寪寫寬寭寮寯寰寱寲寳寴寵寶寷寸对寺寻导寽対寿岀岁岂岃岄岅岆岇岈岉岊岋岌岍岎岏岐岑岒岓岔岕岖岗岘岙",
     "岚岛岜岝岞岟岠岡岢岣岤岥岦岧岨岩岪岫岬岭岮岯岰岱岲岳岴岵岶岷岸岹岺岻岼岽岾岿峀峁峂峃峄峅峆峇峈峉峊峋峌峍峎峏峐峑峒峓峔峕",
     "峖峗峘峙峚峛峜峝峞峟峠峡峢峣峤峥峦峧峨峩峪峫峬峭峮峯峰峱峲峳峴峵島峷峸峹峺峻峼峽峾峿嶀嶁嶂嶃嶄嶅嶆嶇嶈嶉嶊嶋嶌嶍嶎嶏嶐嶑",
     "嶒嶓嶔嶕嶖嶗嶘嶙嶚嶛嶜嶝嶞嶟嶠嶡嶢嶣嶤嶥嶦嶧嶨嶩嶪嶫嶬嶭嶮嶯嶰嶱嶲嶳嶴嶵嶶嶷嶸嶹嶺嶻嶼嶽嶾嶿巀巁巂巃巄巅巆巇巈巉巊巋巌巍",
     "巎巏巐巑巒巓巔巕巖巗巘巙巚巛巜川州巟巠巡巢巣巤工左巧巨巩巪巫巬巭差巯巰己已巳巴巵巶巷巸巹巺巻巼巽巾巿庀庁庂広庄庅庆庇庈庉",
     "床庋庌庍庎序庐庑庒库应底庖店庘庙庚庛府庝庞废庠庡庢庣庤庥度座庨庩庪庫庬庭庮庯庰庱庲庳庴庵庶康庸庹庺庻庼庽庾庿廀廁廂廃廄廅",
     "廆廇廈廉廊廋廌廍廎廏廐廑廒廓廔廕廖廗廘廙廚廛廜廝廞廟廠廡廢廣廤廥廦廧廨廩廪廫廬廭廮廯廰廱廲廳廴廵延廷廸廹建廻廼廽廾廿往征",
     "徂徃径待徆徇很徉徊律後徍徎徏徐徑徒従徔徕徖得徘徙徚徛徜徝從徟徠御徢徣徤徥徦徧徨復循徫徬徭微徯徰徱徲徳徴徵徶德徸徹徺徻徼徽",
     "徾徿忀忁忂心忄必忆忇忈忉忊忋忌忍忎忏忐忑忒忓忔忕忖志忘忙忚忛応忝忞忟忠忡忢忣忤忥忦忧忨忩忪快忬忭忮忯忰忱忲忳忴念忶忷忸忹",
     "忺忻忼忽忾忿悀悁悂悃悄悅悆悇悈悉悊悋悌悍悎悏悐悑悒悓悔悕悖悗悘悙悚悛悜悝悞悟悠悡悢患悤悥悦悧您悩悪悫悬悭悮悯悰悱悲悳悴悵",
     "悶悷悸悹悺悻悼悽悾悿惀惁惂惃惄情惆惇惈惉惊惋惌惍惎惏惐惑惒惓惔惕惖惗惘惙惚惛惜惝惞惟惠惡惢惣惤惥惦惧惨惩惪惫惬惭惮惯惰惱",
     "惲想惴惵惶惷惸惹惺惻惼惽惾惿憀憁憂憃憄憅憆憇憈憉憊憋憌憍憎憏憐憑憒憓憔憕憖憗憘憙憚憛憜憝憞憟憠憡憢憣憤憥憦憧憨憩憪憫憬憭",
     "憮憯憰憱憲憳憴憵憶憷憸憹憺憻憼憽憾憿懀懁懂懃懄懅懆懇懈應懊懋懌懍懎懏懐懑懒懓懔懕懖懗懘懙懚懛懜懝懞懟懠懡懢懣懤懥懦懧懨懩",
     "懪懫懬懭懮懯懰懱懲懳懴懵懶懷懸懹懺懻懼懽懾懿技抁抂抃抄抅抆抇抈抉把抋抌抍抎抏抐抑抒抓抔投抖抗折抙抚抛抜抝択抟抠抡抢抣护报",
     "抦抧抨抩抪披抬抭抮抯抰抱抲抳抴抵抶抷抸抹抺抻押抽抾抿拀拁拂拃拄担拆拇拈拉拊拋拌拍拎拏拐拑拒拓拔拕拖拗拘拙拚招拜拝拞拟拠拡",
     "拢拣拤拥拦拧拨择拪拫括拭拮拯拰拱拲拳拴拵拶拷拸拹拺拻拼拽拾拿掀掁掂掃掄掅掆掇授掉掊掋掌掍掎掏掐掑排掓掔掕掖掗掘掙掚掛掜掝",
     "掞掟掠採探掣掤接掦控推掩措掫掬掭掮掯掰掱掲掳掴掵掶掷掸掹掺掻掼掽掾掿揀揁揂揃揄揅揆揇揈揉揊揋揌揍揎描提揑插揓揔揕揖揗揘揙",
     "揚換揜揝揞揟揠握揢揣揤揥揦揧揨揩揪揫揬揭揮揯揰揱揲揳援揵揶揷揸揹揺揻揼揽揾揿撀撁撂撃撄撅撆撇撈撉撊撋撌撍撎撏撐撑撒撓撔撕",
     "撖撗撘撙撚撛撜撝撞撟撠撡撢撣撤撥撦撧撨撩撪撫撬播撮撯撰撱撲撳撴撵撶撷撸撹撺撻撼撽撾撿擀擁擂擃擄擅擆擇擈擉擊擋擌操擎擏擐擑",
     "擒擓擔擕擖擗擘擙據擛擜擝擞擟擠擡擢擣擤擥擦擧擨擩擪擫擬擭擮擯擰擱擲擳擴擵擶擷擸擹擺擻擼擽擾擿斀斁斂斃斄斅斆文斈斉斊斋斌斍",
     "斎斏斐斑斒斓斔斕斖斗斘料斚斛斜斝斞斟斠斡斢斣斤斥斦斧斨斩斪斫斬断斮斯新斱斲斳斴斵斶斷斸方斺斻於施斾斿旀旁旂旃旄旅旆旇旈旉",
     "旊旋旌旍旎族旐旑旒旓旔旕旖旗旘旙旚旛旜旝旞旟无旡既旣旤日旦旧旨早旪旫旬旭旮旯旰旱旲旳旴旵时旷旸旹旺旻旼旽旾旿暀暁暂暃暄暅",
     "暆暇暈暉暊暋暌暍暎暏暐暑暒暓暔暕暖暗暘暙暚暛暜暝暞暟暠暡暢暣暤暥暦暧暨暩暪暫暬暭暮暯暰暱暲暳暴暵暶暷暸暹暺暻暼暽暾暿曀曁",
     "曂曃曄曅曆曇曈曉曊曋曌曍曎曏曐曑曒曓曔曕曖曗曘曙曚曛曜曝曞曟曠曡曢曣曤曥曦曧曨曩曪曫曬曭曮曯曰曱曲曳更曵曶曷書曹曺曻曼曽",
     "曾替枀极枂枃构枅枆枇枈枉枊枋枌枍枎枏析枑枒枓枔枕枖林枘枙枚枛果枝枞枟枠枡枢枣枤枥枦枧枨枩枪枫枬枭枮枯枰枱枲枳枴枵架枷枸枹",
     "枺枻枼枽枾枿柀柁柂柃柄柅柆柇柈柉柊柋柌柍柎柏某柑柒染柔柕柖柗柘柙柚柛柜柝柞柟柠柡柢柣柤查柦柧柨柩柪柫柬柭柮柯柰柱柲柳柴柵",
     "柶柷柸柹柺査柼柽柾柿梀梁梂梃梄梅梆梇梈梉梊梋梌梍梎梏梐梑梒梓梔梕梖梗梘梙梚梛梜條梞梟梠梡梢梣梤梥梦梧梨梩梪梫梬梭梮梯械梱",
     "梲梳梴梵梶梷梸梹梺梻梼梽梾梿检棁棂棃棄棅棆棇棈棉棊棋棌棍棎棏棐棑棒棓棔棕棖棗棘棙棚棛棜棝棞棟棠棡棢棣棤棥棦棧棨棩棪棫棬棭",
     "森棯棰棱棲棳棴棵棶棷棸棹棺棻棼棽棾棿榀榁概榃榄榅榆榇榈榉榊榋榌榍榎榏榐榑榒榓榔榕榖榗榘榙榚榛榜榝榞榟榠榡榢榣榤榥榦榧榨榩",
     "榪榫榬榭榮榯榰榱榲榳榴榵榶榷榸榹榺榻榼榽榾榿槀槁槂槃槄槅槆槇槈槉槊構槌槍槎槏槐槑槒槓槔槕槖槗様槙槚槛槜槝槞槟槠槡槢槣槤槥",
     "槦槧槨槩槪槫槬槭槮槯槰槱槲槳槴槵槶槷槸槹槺槻槼槽槾槿檀檁檂檃檄檅檆檇檈檉檊檋檌檍檎檏檐檑檒檓檔檕檖檗檘檙檚檛檜檝檞檟檠檡",
     "檢檣檤檥檦檧檨檩檪檫檬檭檮檯檰檱檲檳檴檵檶檷檸檹檺檻檼檽檾檿櫀櫁櫂櫃櫄櫅櫆櫇櫈櫉櫊櫋櫌櫍櫎櫏櫐櫑櫒櫓櫔櫕櫖櫗櫘櫙櫚櫛櫜櫝",
     "櫞櫟櫠櫡櫢櫣櫤櫥櫦櫧櫨櫩櫪櫫櫬櫭櫮櫯櫰櫱櫲櫳櫴櫵櫶櫷櫸櫹櫺櫻櫼櫽櫾櫿殀殁殂殃殄殅殆殇殈殉殊残殌殍殎殏殐殑殒殓殔殕殖殗殘殙",
     "殚殛殜殝殞殟殠殡殢殣殤殥殦殧殨殩殪殫殬殭殮殯殰殱殲殳殴段殶殷殸殹殺殻殼殽殾殿毀毁毂毃毄毅毆毇毈毉毊毋毌母毎每毐毑毒毓比毕",
     "毖毗毘毙毚毛毜毝毞毟毠毡毢毣毤毥毦毧毨毩毪毫毬毭毮毯毰毱毲毳毴毵毶毷毸毹毺毻毼毽毾毿沀沁沂沃沄沅沆沇沈沉沊沋沌沍沎沏沐沑",
     "沒沓沔沕沖沗沘沙沚沛沜沝沞沟沠没沢沣沤沥沦沧沨沩沪沫沬沭沮沯沰沱沲河沴沵沶沷沸油沺治沼沽沾沿泀況泂泃泄泅泆泇泈泉泊泋泌泍",
     "泎泏泐泑泒泓泔法泖泗泘泙泚泛泜泝泞泟泠泡波泣泤泥泦泧注泩泪泫泬泭泮泯泰泱泲泳泴泵泶泷泸泹泺泻泼泽泾泿涀涁涂涃涄涅涆涇消涉",
     "涊涋涌涍涎涏涐涑涒涓涔涕涖涗涘涙涚涛涜涝涞涟涠涡涢涣涤涥润涧涨涩涪涫涬涭涮涯涰涱液涳涴涵涶涷涸涹涺涻涼涽涾涿淀淁淂淃淄淅",
     "淆淇淈淉淊淋淌淍淎淏淐淑淒淓淔淕淖淗淘淙淚淛淜淝淞淟淠淡淢淣淤淥淦淧淨淩淪淫淬淭淮淯淰深淲淳淴淵淶混淸淹淺添淼淽淾淿満溁",
     "溂溃溄溅溆溇溈溉溊溋溌溍溎溏源溑溒溓溔溕準溗溘溙溚溛溜溝溞溟溠溡溢溣溤溥溦溧溨溩溪溫溬溭溮溯溰溱溲溳溴溵溶溷溸溹溺溻溼溽",
     "溾溿滀滁滂滃滄滅滆滇滈滉滊滋滌滍滎滏滐滑滒滓滔滕滖滗滘滙滚滛滜滝滞滟滠满滢滣滤滥滦滧滨滩滪滫滬滭滮滯滰滱滲滳滴滵滶滷滸滹",
     "滺滻滼滽滾滿澀澁澂澃澄澅澆澇澈澉澊澋澌澍澎澏澐澑澒澓澔澕澖澗澘澙澚澛澜澝澞澟澠澡澢澣澤澥澦澧澨澩澪澫澬澭澮澯澰澱澲澳澴澵",
     "澶澷澸澹澺澻澼澽澾澿激濁濂濃濄濅濆濇濈濉濊濋濌濍濎濏濐濑濒濓濔濕濖濗濘濙濚濛濜濝濞濟濠濡濢濣濤濥濦濧濨濩濪濫濬濭濮濯濰濱",
     "濲濳濴濵濶濷濸濹濺濻濼濽濾濿炀炁炂炃炄炅炆炇炈炉炊炋炌炍炎炏炐炑炒炓炔炕炖炗炘炙炚炛炜炝炞炟炠炡炢炣炤炥炦炧炨炩炪炫炬炭",
     "炮炯炰炱炲炳炴炵炶炷炸点為炻炼炽炾炿烀烁烂烃烄烅烆烇烈烉烊烋烌烍烎烏烐烑烒烓烔烕烖烗烘烙烚烛烜烝烞烟烠烡烢烣烤烥烦烧烨烩",
     "烪烫烬热烮烯烰烱烲烳烴烵烶烷烸烹烺烻烼烽烾烿熀熁熂熃熄熅熆熇熈熉熊熋熌熍熎熏熐熑熒熓熔熕熖熗熘熙熚熛熜熝熞熟熠熡熢熣熤熥",
     "熦熧熨熩熪熫熬熭熮熯熰熱熲熳熴熵熶熷熸熹熺熻熼熽熾熿燀燁燂燃燄燅燆燇燈燉燊燋燌燍燎燏燐燑燒燓燔燕燖燗燘燙燚燛燜燝燞營燠燡",
     "燢燣燤燥燦燧燨燩燪燫燬燭燮燯燰燱燲燳燴燵燶燷燸燹燺燻燼燽燾燿犀犁犂犃犄犅犆犇犈犉犊犋犌犍犎犏犐犑犒犓犔犕犖犗犘犙犚犛犜犝",
     "犞犟犠犡犢犣犤犥犦犧犨犩犪犫犬犭犮犯犰犱犲犳犴犵状犷犸犹犺犻犼犽犾犿狀狁狂狃狄狅狆狇狈狉狊狋狌狍狎狏狐狑狒狓狔狕狖狗狘狙",
     "狚狛狜狝狞狟狠狡狢狣狤狥狦狧狨狩狪狫独狭狮狯狰狱狲狳狴狵狶狷狸狹狺狻狼狽狾狿玀玁玂玃玄玅玆率玈玉玊王玌玍玎玏玐玑玒玓玔玕",
     "玖玗玘玙玚玛玜玝玞玟玠玡玢玣玤玥玦玧玨玩玪玫玬玭玮环现玱玲玳玴玵玶玷玸玹玺玻玼玽玾玿珀珁珂珃珄珅珆珇珈珉珊珋珌珍珎珏珐珑",
     "珒珓珔珕珖珗珘珙珚珛珜珝珞珟珠珡珢珣珤珥珦珧珨珩珪珫珬班珮珯珰珱珲珳珴珵珶珷珸珹珺珻珼珽現珿璀璁璂璃璄璅璆璇璈璉璊璋璌璍",
     "璎璏璐璑璒璓璔璕璖璗璘璙璚璛璜璝璞璟璠璡璢璣璤璥璦璧璨璩璪璫璬璭璮璯環璱璲璳璴璵璶璷璸璹璺璻璼璽璾璿瓀瓁瓂瓃瓄瓅瓆瓇瓈瓉",
     "瓊瓋瓌瓍瓎瓏瓐瓑瓒瓓瓔瓕瓖瓗瓘瓙瓚瓛瓜瓝瓞瓟瓠瓡瓢瓣瓤瓥瓦瓧瓨瓩瓪瓫瓬瓭瓮瓯瓰瓱瓲瓳瓴瓵瓶瓷瓸瓹瓺瓻瓼瓽瓾瓿疀疁疂疃疄疅",
     "疆疇疈疉疊疋疌疍疎疏疐疑疒疓疔疕疖疗疘疙疚疛疜疝疞疟疠疡疢疣疤疥疦疧疨疩疪疫疬疭疮疯疰疱疲疳疴疵疶疷疸疹疺疻疼疽疾疿痀痁",
     "痂痃痄病痆症痈痉痊痋痌痍痎痏痐痑痒痓痔痕痖痗痘痙痚痛痜痝痞痟痠痡痢痣痤痥痦痧痨痩痪痫痬痭痮痯痰痱痲痳痴痵痶痷痸痹痺痻痼痽",
     "痾痿皀皁皂皃的皅皆皇皈皉皊皋皌皍皎皏皐皑皒皓皔皕皖皗皘皙皚皛皜皝皞皟皠皡皢皣皤皥皦皧皨皩皪皫皬皭皮皯皰皱皲皳皴皵皶皷皸皹",
     "皺皻皼皽皾皿盀盁盂盃盄盅盆盇盈盉益盋盌盍盎盏盐监盒盓盔盕盖盗盘盙盚盛盜盝盞盟盠盡盢監盤盥盦盧盨盩盪盫盬盭目盯盰盱盲盳直盵",
     "盶盷相盹盺盻盼盽盾盿瞀瞁瞂瞃瞄瞅瞆瞇瞈瞉瞊瞋瞌瞍瞎瞏瞐瞑瞒瞓瞔瞕瞖瞗瞘瞙瞚瞛瞜瞝瞞瞟瞠瞡瞢瞣瞤瞥瞦瞧瞨瞩瞪瞫瞬瞭瞮瞯瞰瞱",
     "瞲瞳瞴瞵瞶瞷瞸瞹瞺瞻瞼瞽瞾瞿矀矁矂矃矄矅矆矇矈矉矊矋矌矍矎矏矐矑矒矓矔矕矖矗矘矙矚矛矜矝矞矟矠矡矢矣矤知矦矧矨矩矪矫矬短",
     "矮矯矰矱矲石矴矵矶矷矸矹矺矻矼矽矾矿碀碁碂碃碄碅碆碇碈碉碊碋碌碍碎碏碐碑碒碓碔碕碖碗碘碙碚碛碜碝碞碟碠碡碢碣碤碥碦碧碨碩",
     "碪碫碬碭碮碯碰碱碲碳碴碵碶碷碸碹確碻碼碽碾碿磀磁磂磃磄磅磆磇磈磉磊磋磌磍磎磏磐磑磒磓磔磕磖磗磘磙磚磛磜磝磞磟磠磡磢磣磤磥",
     "磦磧磨磩磪磫磬磭磮磯磰磱磲磳磴磵磶磷磸磹磺磻磼磽磾磿禀禁禂禃禄禅禆禇禈禉禊禋禌禍禎福禐禑禒禓禔禕禖禗禘禙禚禛禜禝禞禟禠禡",
     "禢禣禤禥禦禧禨禩禪禫禬禭禮禯禰禱禲禳禴禵禶禷禸禹禺离禼禽禾禿秀私秂秃秄秅秆秇秈秉秊秋秌种秎秏秐科秒秓秔秕秖秗秘秙秚秛秜秝",
     "秞租秠秡秢秣秤秥秦秧秨秩秪秫秬秭秮积称秱秲秳秴秵秶秷秸秹秺移秼秽秾秿窀突窂窃窄窅窆窇窈窉窊窋窌窍窎窏窐窑窒窓窔窕窖窗窘窙",
     "窚窛窜窝窞窟窠窡窢窣窤窥窦窧窨窩窪窫窬窭窮窯窰窱窲窳窴窵窶窷窸窹窺窻窼窽窾窿竀竁竂竃竄竅竆竇竈竉竊立竌竍竎竏竐竑竒竓竔竕",
     "竖竗竘站竚竛竜竝竞竟章竡竢竣竤童竦竧竨竩竪竫竬竭竮端竰竱竲竳竴竵競竷竸竹竺竻竼竽竾竿简箁箂箃箄箅箆箇箈箉箊箋箌箍箎箏箐箑",
     "箒箓箔箕箖算箘箙箚箛箜箝箞箟箠管箢箣箤箥箦箧箨箩箪箫箬箭箮箯箰箱箲箳箴箵箶箷箸箹箺箻箼箽箾箿節篁篂篃範篅篆篇篈築篊篋篌篍",
     "篎篏篐篑篒篓篔篕篖篗篘篙篚篛篜篝篞篟篠篡篢篣篤篥篦篧篨篩篪篫篬篭篮篯篰篱篲篳篴篵篶篷篸篹篺篻篼篽篾篿粀粁粂粃粄粅粆粇粈粉",
     "粊粋粌粍粎粏粐粑粒粓粔粕粖粗粘粙粚粛粜粝粞粟粠粡粢粣粤粥粦粧粨粩粪粫粬粭粮粯粰粱粲粳粴粵粶粷粸粹粺粻粼粽精粿糀糁糂糃糄糅",
     "糆糇糈糉糊糋糌糍糎糏糐糑糒糓糔糕糖糗糘糙糚糛糜糝糞糟糠糡糢糣糤糥糦糧糨糩糪糫糬糭糮糯糰糱糲糳糴糵糶糷糸糹糺系糼糽糾糿綀綁",
     "綂綃綄綅綆綇綈綉綊綋綌綍綎綏綐綑綒經綔綕綖綗綘継続綛綜綝綞綟綠綡綢綣綤綥綦綧綨綩綪綫綬維綮綯綰綱網綳綴綵綶綷綸綹綺綻綼綽",
     "綾綿緀緁緂緃緄緅緆緇緈緉緊緋緌緍緎総緐緑緒緓緔緕緖緗緘緙線緛緜緝緞緟締緡緢緣緤緥緦緧編緩緪緫緬緭緮緯緰緱緲緳練緵緶緷緸緹",
     "緺緻緼緽緾緿纀纁纂纃纄纅纆纇纈纉纊纋續纍纎纏纐纑纒纓纔纕纖纗纘纙纚纛纜纝纞纟纠纡红纣纤纥约级纨纩纪纫纬纭纮纯纰纱纲纳纴纵",
     "纶纷纸纹纺纻纼纽纾线绀绁绂练组绅细织终绉绊绋绌绍绎经绐绑绒结绔绕绖绗绘给绚绛络绝绞统绠绡绢绣绤绥绦继绨绩绪绫绬续绮绯绰绱",
     "绲绳维绵绶绷绸绹绺绻综绽绾绿羀羁羂羃羄羅羆羇羈羉羊羋羌羍美羏羐羑羒羓羔羕羖羗羘羙羚羛羜羝羞羟羠羡羢羣群羥羦羧羨義羪羫羬羭",
     "羮羯羰羱羲羳羴羵羶羷羸羹羺羻羼羽羾羿翀翁翂翃翄翅翆翇翈翉翊翋翌翍翎翏翐翑習翓翔翕翖翗翘翙翚翛翜翝翞翟翠翡翢翣翤翥翦翧翨翩",
     "翪翫翬翭翮翯翰翱翲翳翴翵翶翷翸翹翺翻翼翽翾翿肀肁肂肃肄肅肆肇肈肉肊肋肌肍肎肏肐肑肒肓肔肕肖肗肘肙肚肛肜肝肞肟肠股肢肣肤肥",
     "肦肧肨肩肪肫肬肭肮肯肰肱育肳肴肵肶肷肸肹肺肻肼肽肾肿胀胁胂胃胄胅胆胇胈胉胊胋背胍胎胏胐胑胒胓胔胕胖胗胘胙胚胛胜胝胞胟胠胡",
     "胢胣胤胥胦胧胨胩胪胫胬胭胮胯胰胱胲胳胴胵胶胷胸胹胺胻胼能胾胿膀膁膂膃膄膅膆膇膈膉膊膋膌膍膎膏膐膑膒膓膔膕膖膗膘膙膚膛膜膝",
     "膞膟膠膡膢膣膤膥膦膧膨膩膪膫膬膭膮膯膰膱膲膳膴膵膶膷膸膹膺膻膼膽膾膿臀臁臂臃臄臅臆臇臈臉臊臋臌臍臎臏臐臑臒臓臔臕臖臗臘臙",
     "臚臛臜臝臞臟臠臡臢臣臤臥臦臧臨臩自臫臬臭臮臯臰臱臲至致臵臶臷臸臹臺臻臼臽臾臿芀芁节芃芄芅芆芇芈芉芊芋芌芍芎芏芐芑芒芓芔芕",
     "芖芗芘芙芚芛芜芝芞芟芠芡芢芣芤芥芦芧芨芩芪芫芬芭芮芯芰花芲芳芴芵芶芷芸芹芺芻芼芽芾芿苀苁苂苃苄苅苆苇苈苉苊苋苌苍苎苏苐苑",
     "苒苓苔苕苖苗苘苙苚苛苜苝苞苟苠苡苢苣苤若苦苧苨苩苪苫苬苭苮苯苰英苲苳苴苵苶苷苸苹苺苻苼苽苾苿莀莁莂莃莄莅莆莇莈莉莊莋莌莍",
     "莎莏莐莑莒莓莔莕莖莗莘莙莚莛莜莝莞莟莠莡莢莣莤莥莦莧莨莩莪莫莬莭莮莯莰莱莲莳莴莵莶获莸莹莺莻莼莽莾莿菀菁菂菃菄菅菆菇菈菉",
     "菊菋菌菍菎菏菐菑菒菓菔菕菖菗菘菙菚菛菜菝菞菟菠菡菢菣菤菥菦菧菨菩菪菫菬菭菮華菰菱菲菳菴菵菶菷菸菹菺菻菼菽菾菿蒀蒁蒂蒃蒄蒅",
     "蒆蒇蒈蒉蒊蒋蒌蒍蒎蒏蒐蒑蒒蒓蒔蒕蒖蒗蒘蒙蒚蒛蒜蒝蒞蒟蒠蒡蒢蒣蒤蒥蒦蒧蒨蒩蒪蒫蒬蒭蒮蒯蒰蒱蒲蒳蒴蒵蒶蒷蒸蒹蒺蒻蒼蒽蒾蒿蓀蓁",
     "蓂蓃蓄蓅蓆蓇蓈蓉蓊蓋蓌蓍蓎蓏蓐蓑蓒蓓蓔蓕蓖蓗蓘蓙蓚蓛蓜蓝蓞蓟蓠蓡蓢蓣蓤蓥蓦蓧蓨蓩蓪蓫蓬蓭蓮蓯蓰蓱蓲蓳蓴蓵蓶蓷蓸蓹蓺蓻蓼蓽",
     "蓾蓿薀薁薂薃薄薅薆薇薈薉薊薋薌薍薎薏薐薑薒薓薔薕薖薗薘薙薚薛薜薝薞薟薠薡薢薣薤薥薦薧薨薩薪薫薬薭薮薯薰薱薲薳薴薵薶薷薸薹",
     "薺薻薼薽薾薿藀藁藂藃藄藅藆藇藈藉藊藋藌藍藎藏藐藑藒藓藔藕藖藗藘藙藚藛藜藝藞藟藠藡藢藣藤藥藦藧藨藩藪藫藬藭藮藯藰藱藲藳藴藵",
     "藶藷藸藹藺藻藼藽藾藿蚀蚁蚂蚃蚄蚅蚆蚇蚈蚉蚊蚋蚌蚍蚎蚏蚐蚑蚒蚓蚔蚕蚖蚗蚘蚙蚚蚛蚜蚝蚞蚟蚠蚡蚢蚣蚤蚥蚦蚧蚨蚩蚪蚫蚬蚭蚮蚯蚰蚱",
     "蚲蚳蚴蚵蚶蚷蚸蚹蚺蚻蚼蚽蚾蚿蛀蛁蛂蛃蛄蛅蛆蛇蛈蛉蛊蛋蛌蛍蛎蛏蛐蛑蛒蛓蛔蛕蛖蛗蛘蛙蛚蛛蛜蛝蛞蛟蛠蛡蛢蛣蛤蛥蛦蛧蛨蛩蛪蛫蛬蛭",
     "蛮蛯蛰蛱蛲蛳蛴蛵蛶蛷蛸蛹蛺蛻蛼蛽蛾蛿螀螁螂螃螄螅螆螇螈螉螊螋螌融螎螏螐螑螒螓螔螕螖螗螘螙螚螛螜螝螞螟螠螡螢螣螤螥螦螧螨螩",
     "螪螫螬螭螮螯螰螱螲螳螴螵螶螷螸螹螺螻螼螽螾螿蟀蟁蟂蟃蟄蟅蟆蟇蟈蟉蟊蟋蟌蟍蟎蟏蟐蟑蟒蟓蟔蟕蟖蟗蟘蟙蟚蟛蟜蟝蟞蟟蟠蟡蟢蟣蟤蟥",
     "蟦蟧蟨蟩蟪蟫蟬蟭蟮蟯蟰蟱蟲蟳蟴蟵蟶蟷蟸蟹蟺蟻蟼蟽蟾蟿袀袁袂袃袄袅袆袇袈袉袊袋袌袍袎袏袐袑袒袓袔袕袖袗袘袙袚袛袜袝袞袟袠袡",
     "袢袣袤袥袦袧袨袩袪被袬袭袮袯袰袱袲袳袴袵袶袷袸袹袺袻袼袽袾袿裀裁裂裃裄装裆裇裈裉裊裋裌裍裎裏裐裑裒裓裔裕裖裗裘裙裚裛補裝",
     "裞裟裠裡裢裣裤裥裦裧裨裩裪裫裬裭裮裯裰裱裲裳裴裵裶裷裸裹裺裻裼製裾裿覀要覂覃覄覅覆覇覈覉覊見覌覍覎規覐覑覒覓覔覕視覗覘覙",
     "覚覛覜覝覞覟覠覡覢覣覤覥覦覧覨覩親覫覬覭覮覯覰覱覲観覴覵覶覷覸覹覺覻覼覽覾覿觀见观觃规觅视觇览觉觊觋觌觍觎觏觐觑角觓觔觕",
     "觖觗觘觙觚觛觜觝觞觟觠觡觢解觤觥触觧觨觩觪觫觬觭觮觯觰觱觲觳觴觵觶觷觸觹觺觻觼觽觾觿誀誁誂誃誄誅誆誇誈誉誊誋誌認誎誏誐誑",
     "誒誓誔誕誖誗誘誙誚誛誜誝語誟誠誡誢誣誤誥誦誧誨誩說誫説読誮誯誰誱課誳誴誵誶誷誸誹誺誻誼誽誾調諀諁諂諃諄諅諆談諈諉諊請諌諍",
     "諎諏諐諑諒諓諔諕論諗諘諙諚諛諜諝諞諟諠諡諢諣諤諥諦諧諨諩諪諫諬諭諮諯諰諱諲諳諴諵諶諷諸諹諺諻諼諽諾諿讀讁讂讃讄讅讆讇讈讉",
     "變讋讌讍讎讏讐讑讒讓讔讕讖讗讘讙讚讛讜讝讞讟讠计订讣认讥讦讧讨让讪讫讬训议讯记讱讲讳讴讵讶讷许讹论讻讼讽设访诀证诂诃评诅",
     "识诇诈诉诊诋诌词诎诏诐译诒诓诔试诖诗诘诙诚诛诜话诞诟诠诡询诣诤该详诧诨诩诪诫诬语诮误诰诱诲诳说诵诶请诸诹诺读诼诽课诿貀貁",
     "貂貃貄貅貆貇貈貉貊貋貌貍貎貏貐貑貒貓貔貕貖貗貘貙貚貛貜貝貞貟負財貢貣貤貥貦貧貨販貪貫責貭貮貯貰貱貲貳貴貵貶買貸貹貺費貼貽",
     "貾貿賀賁賂賃賄賅賆資賈賉賊賋賌賍賎賏賐賑賒賓賔賕賖賗賘賙賚賛賜賝賞賟賠賡賢賣賤賥賦賧賨賩質賫賬賭賮賯賰賱賲賳賴賵賶賷賸賹",
     "賺賻購賽賾賿趀趁趂趃趄超趆趇趈趉越趋趌趍趎趏趐趑趒趓趔趕趖趗趘趙趚趛趜趝趞趟趠趡趢趣趤趥趦趧趨趩趪趫趬趭趮趯趰趱趲足趴趵",
     "趶趷趸趹趺趻趼趽趾趿跀跁跂跃跄跅跆跇跈跉跊跋跌跍跎跏跐跑跒跓跔跕跖跗跘跙跚跛跜距跞跟跠跡跢跣跤跥跦跧跨跩跪跫跬跭跮路跰跱",
     "跲跳跴践跶跷跸跹跺跻跼跽跾跿躀躁躂躃躄躅躆躇躈躉躊躋躌躍躎躏躐躑躒躓躔躕躖躗躘躙躚躛躜躝躞躟躠躡躢躣躤躥躦躧躨躩躪身躬躭",
     "躮躯躰躱躲躳躴躵躶躷躸躹躺躻躼躽躾躿軀軁軂軃軄軅軆軇軈軉車軋軌軍軎軏軐軑軒軓軔軕軖軗軘軙軚軛軜軝軞軟軠軡転軣軤軥軦軧軨軩",
     "軪軫軬軭軮軯軰軱軲軳軴軵軶軷軸軹軺軻軼軽軾軿辀辁辂较辄辅辆辇辈辉辊辋辌辍辎辏辐辑辒输辔辕辖辗辘辙辚辛辜辝辞辟辠辡辢辣辤辥",
     "辦辧辨辩辪辫辬辭辮辯辰辱農辳辴辵辶辷辸边辺辻込辽达辿迀迁迂迃迄迅迆过迈迉迊迋迌迍迎迏运近迒迓返迕迖迗还这迚进远违连迟迠迡",
     "迢迣迤迥迦迧迨迩迪迫迬迭迮迯述迱迲迳迴迵迶迷迸迹迺迻迼追迾迿邀邁邂邃還邅邆邇邈邉邊邋邌邍邎邏邐邑邒邓邔邕邖邗邘邙邚邛邜邝",
     "邞邟邠邡邢那邤邥邦邧邨邩邪邫邬邭邮邯邰邱邲邳邴邵邶邷邸邹邺邻邼邽邾邿郀郁郂郃郄郅郆郇郈郉郊郋郌郍郎郏郐郑郒郓郔郕郖郗郘郙",
     "郚郛郜郝郞郟郠郡郢郣郤郥郦郧部郩郪郫郬郭郮郯郰郱郲郳郴郵郶郷郸郹郺郻郼都郾郿醀醁醂醃醄醅醆醇醈醉醊醋醌醍醎醏醐醑醒醓醔醕",
     "醖醗醘醙醚醛醜醝醞醟醠醡醢醣醤醥醦醧醨醩醪醫醬醭醮醯醰醱醲醳醴醵醶醷醸醹醺醻醼醽醾醿釀釁釂釃釄釅釆采釈釉释釋里重野量釐金",
     "釒釓釔釕釖釗釘釙釚釛釜針釞釟釠釡釢釣釤釥釦釧釨釩釪釫釬釭釮釯釰釱釲釳釴釵釶釷釸釹釺釻釼釽釾釿銀銁銂銃銄銅銆銇銈銉銊銋銌銍",
     "銎銏銐銑銒銓銔銕銖銗銘銙銚銛銜銝銞銟銠銡銢銣銤銥銦銧銨銩銪銫銬銭銮銯銰銱銲銳銴銵銶銷銸銹銺銻銼銽銾銿鋀鋁鋂鋃鋄鋅鋆鋇鋈鋉",
     "鋊鋋鋌鋍鋎鋏鋐鋑鋒鋓鋔鋕鋖鋗鋘鋙鋚鋛鋜鋝鋞鋟鋠鋡鋢鋣鋤鋥鋦鋧鋨鋩鋪鋫鋬鋭鋮鋯鋰鋱鋲鋳鋴鋵鋶鋷鋸鋹鋺鋻鋼鋽鋾鋿鎀鎁鎂鎃鎄鎅",
     "鎆鎇鎈鎉鎊鎋鎌鎍鎎鎏鎐鎑鎒鎓鎔鎕鎖鎗鎘鎙鎚鎛鎜鎝鎞鎟鎠鎡鎢鎣鎤鎥鎦鎧鎨鎩鎪鎫鎬鎭鎮鎯鎰鎱鎲鎳鎴鎵鎶鎷鎸鎹鎺鎻鎼鎽鎾鎿鏀鏁",
     "鏂鏃鏄鏅鏆鏇鏈鏉鏊鏋鏌鏍鏎鏏鏐鏑鏒鏓鏔鏕鏖鏗鏘鏙鏚鏛鏜鏝鏞鏟鏠鏡鏢鏣鏤鏥鏦鏧鏨鏩鏪鏫鏬鏭鏮鏯鏰鏱鏲鏳鏴鏵鏶鏷鏸鏹鏺鏻鏼鏽",
     "鏾鏿钀钁钂钃钄钅钆钇针钉钊钋钌钍钎钏钐钑钒钓钔钕钖钗钘钙钚钛钜钝钞钟钠钡钢钣钤钥钦钧钨钩钪钫钬钭钮钯钰钱钲钳钴钵钶钷钸钹",
     "钺钻钼钽钾钿铀铁铂铃铄铅铆铇铈铉铊铋铌铍铎铏铐铑铒铓铔铕铖铗铘铙铚铛铜铝铞铟铠铡铢铣铤铥铦铧铨铩铪铫铬铭铮铯铰铱铲铳铴铵",
     "银铷铸铹铺铻铼铽链铿門閁閂閃閄閅閆閇閈閉閊開閌閍閎閏閐閑閒間閔閕閖閗閘閙閚閛閜閝閞閟閠閡関閣閤閥閦閧閨閩閪閫閬閭閮閯閰閱",
     "閲閳閴閵閶閷閸閹閺閻閼閽閾閿闀闁闂闃闄闅闆闇闈闉闊闋闌闍闎闏闐闑闒闓闔闕闖闗闘闙闚闛關闝闞闟闠闡闢闣闤闥闦闧门闩闪闫闬闭",
     "问闯闰闱闲闳间闵闶闷闸闹闺闻闼闽闾闿隀隁隂隃隄隅隆隇隈隉隊隋隌隍階随隐隑隒隓隔隕隖隗隘隙隚際障隝隞隟隠隡隢隣隤隥隦隧隨隩",
     "險隫隬隭隮隯隰隱隲隳隴隵隶隷隸隹隺隻隼隽难隿雀雁雂雃雄雅集雇雈雉雊雋雌雍雎雏雐雑雒雓雔雕雖雗雘雙雚雛雜雝雞雟雠雡離難雤雥",
     "雦雧雨雩雪雫雬雭雮雯雰雱雲雳雴雵零雷雸雹雺電雼雽雾雿鞀鞁鞂鞃鞄鞅鞆鞇鞈鞉鞊鞋鞌鞍鞎鞏鞐鞑鞒鞓鞔鞕鞖鞗鞘鞙鞚鞛鞜鞝鞞鞟鞠鞡",
     "鞢鞣鞤鞥鞦鞧鞨鞩鞪鞫鞬鞭鞮鞯鞰鞱鞲鞳鞴鞵鞶鞷鞸鞹鞺鞻鞼鞽鞾鞿韀韁韂韃韄韅韆韇韈韉韊韋韌韍韎韏韐韑韒韓韔韕韖韗韘韙韚韛韜韝",
     "韞韟韠韡韢韣韤韥韦韧韨韩韪韫韬韭韮韯韰韱韲音韴韵韶韷韸韹韺韻韼韽韾響颀颁颂颃预颅领颇颈颉颊颋颌颍颎颏颐频颒颓颔颕颖颗题颙",
     "颚颛颜额颞颟颠颡颢颣颤颥颦颧風颩颪颫颬颭颮颯颰颱颲颳颴颵颶颷颸颹颺颻颼颽颾颿飀飁飂飃飄飅飆飇飈飉飊飋飌飍风飏飐飑飒飓飔飕",
     "飖飗飘飙飚飛飜飝飞食飠飡飢飣飤飥飦飧飨飩飪飫飬飭飮飯飰飱飲飳飴飵飶飷飸飹飺飻飼飽飾飿馀馁馂馃馄馅馆馇馈馉馊馋馌馍馎馏馐馑",
     "馒馓馔馕首馗馘香馚馛馜馝馞馟馠馡馢馣馤馥馦馧馨馩馪馫馬馭馮馯馰馱馲馳馴馵馶馷馸馹馺馻馼馽馾馿駀駁駂駃駄駅駆駇駈駉駊駋駌駍",
     "駎駏駐駑駒駓駔駕駖駗駘駙駚駛駜駝駞駟駠駡駢駣駤駥駦駧駨駩駪駫駬駭駮駯駰駱駲駳駴駵駶駷駸駹駺駻駼駽駾駿骀骁骂骃骄骅骆骇骈骉",
     "骊骋验骍骎骏骐骑骒骓骔骕骖骗骘骙骚骛骜骝骞骟骠骡骢骣骤骥骦骧骨骩骪骫骬骭骮骯骰骱骲骳骴骵骶骷骸骹骺骻骼骽骾骿髀髁髂髃髄髅",
     "髆髇髈髉髊髋髌髍髎髏髐髑髒髓體髕髖髗高髙髚髛髜髝髞髟髠髡髢髣髤髥髦髧髨髩髪髫髬髭髮髯髰髱髲髳髴髵髶髷髸髹髺髻髼髽髾髿鮀鮁",
     "鮂鮃鮄鮅鮆鮇鮈鮉鮊鮋鮌鮍鮎鮏鮐鮑鮒鮓鮔鮕鮖鮗鮘鮙鮚鮛鮜鮝鮞鮟鮠鮡鮢鮣鮤鮥鮦鮧鮨鮩鮪鮫鮬鮭鮮鮯鮰鮱鮲鮳鮴鮵鮶鮷鮸鮹鮺鮻鮼鮽",
     "鮾鮿鯀鯁鯂鯃鯄鯅鯆鯇鯈鯉鯊鯋鯌鯍鯎鯏鯐鯑鯒鯓鯔鯕鯖鯗鯘鯙鯚鯛鯜鯝鯞鯟鯠鯡鯢鯣鯤鯥鯦鯧鯨鯩鯪鯫鯬鯭鯮鯯鯰鯱鯲鯳鯴鯵鯶鯷鯸鯹",
     "鯺鯻鯼鯽鯾鯿鲀鲁鲂鲃鲄鲅鲆鲇鲈鲉鲊鲋鲌鲍鲎鲏鲐鲑鲒鲓鲔鲕鲖鲗鲘鲙鲚鲛鲜鲝鲞鲟鲠鲡鲢鲣鲤鲥鲦鲧鲨鲩鲪鲫鲬鲭鲮鲯鲰鲱鲲鲳鲴鲵",
     "鲶鲷鲸鲹鲺鲻鲼鲽鲾鲿鳀鳁鳂鳃鳄鳅鳆鳇鳈鳉鳊鳋鳌鳍鳎鳏鳐鳑鳒鳓鳔鳕鳖鳗鳘鳙鳚鳛鳜鳝鳞鳟鳠鳡鳢鳣鳤鳥鳦鳧鳨鳩鳪鳫鳬鳭鳮鳯鳰鳱",
     "鳲鳳鳴鳵鳶鳷鳸鳹鳺鳻鳼鳽鳾鳿鶀鶁鶂鶃鶄鶅鶆鶇鶈鶉鶊鶋鶌鶍鶎鶏鶐鶑鶒鶓鶔鶕鶖鶗鶘鶙鶚鶛鶜鶝鶞鶟鶠鶡鶢鶣鶤鶥鶦鶧鶨鶩鶪鶫鶬鶭",
     "鶮鶯鶰鶱鶲鶳鶴鶵鶶鶷鶸鶹鶺鶻鶼鶽鶾鶿鷀鷁鷂鷃鷄鷅鷆鷇鷈鷉鷊鷋鷌鷍鷎鷏鷐鷑鷒鷓鷔鷕鷖鷗鷘鷙鷚鷛鷜鷝鷞鷟鷠鷡鷢鷣鷤鷥鷦鷧鷨鷩",
     "鷪鷫鷬鷭鷮鷯鷰鷱鷲鷳鷴鷵鷶鷷鷸鷹鷺鷻鷼鷽鷾鷿麀麁麂麃麄麅麆麇麈麉麊麋麌麍麎麏麐麑麒麓麔麕麖麗麘麙麚麛麜麝麞麟麠麡麢麣麤麥",
     "麦麧麨麩麪麫麬麭麮麯麰麱麲麳麴麵麶麷麸麹麺麻麼麽麾麿黀黁黂黃黄黅黆黇黈黉黊黋黌黍黎黏黐黑黒黓黔黕黖黗默黙黚黛黜黝點黟黠黡",
     "黢黣黤黥黦黧黨黩黪黫黬黭黮黯黰黱黲黳黴黵黶黷黸黹黺黻黼黽黾黿龀龁龂龃龄龅龆龇龈龉龊龋龌龍龎龏龐龑龒龓龔龕龖龗龘龙龚龛龜龝",
     "龞龟龠龡龢龣龤龥龦龧龨龩龪龫龬龭龮龯龰龱龲龳龴龵龶龷龸龹龺龻龼龽龾龿鿀鿁鿂鿃鿄鿅鿆鿇鿈鿉鿊鿋鿌鿍鿎鿏鿐鿑鿒鿓鿔鿕鿖鿗鿘鿙",
     "鿚鿛鿜鿝鿞鿟鿠鿡鿢鿣鿤鿥鿦鿧鿨鿩鿪鿫鿬鿭鿮鿯鿰鿱鿲鿳鿴鿵鿶鿷鿸鿹鿺鿻鿼鿽鿾鿿ꂀꂁꂂꂃꂄꂅꂆꂇꂈꂉꂊꂋꂌꂍꂎꂏꂐꂑꂒꂓꂔꂕ",
     "ꂖꂗꂘꂙꂚꂛꂜꂝꂞꂟꂠꂡꂢꂣꂤꂥꂦꂧꂨꂩꂪꂫꂬꂭꂮꂯꂰꂱꂲꂳꂴꂵꂶꂷꂸꂹꂺꂻꂼꂽꂾꂿꃀꃁꃂꃃꃄꃅꃆꃇꃈꃉꃊꃋꃌꃍꃎꃏꃐꃑ",
     "ꃒꃓꃔꃕꃖꃗꃘꃙꃚꃛꃜꃝꃞꃟꃠꃡꃢꃣꃤꃥꃦꃧꃨꃩꃪꃫꃬꃭꃮꃯꃰꃱꃲꃳꃴꃵꃶꃷꃸꃹꃺꃻꃼꃽꃾꃿꆀꆁꆂꆃꆄꆅꆆꆇꆈꆉꆊꆋꆌꆍ",
     "ꆎꆏꆐꆑꆒꆓꆔꆕꆖꆗꆘꆙꆚꆛꆜꆝꆞꆟꆠꆡꆢꆣꆤꆥꆦꆧꆨꆩꆪꆫꆬꆭꆮꆯꆰꆱꆲꆳꆴꆵꆶꆷꆸꆹꆺꆻꆼꆽꆾꆿꇀꇁꇂꇃꇄꇅꇆꇇꇈꇉ",
     "ꇊꇋꇌꇍꇎꇏꇐꇑꇒꇓꇔꇕꇖꇗꇘꇙꇚꇛꇜꇝꇞꇟꇠꇡꇢꇣꇤꇥꇦꇧꇨꇩꇪꇫꇬꇭꇮꇯꇰꇱꇲꇳꇴꇵꇶꇷꇸꇹꇺꇻꇼꇽꇾꇿꊀꊁꊂꊃꊄꊅ",
     "ꊆꊇꊈꊉꊊꊋꊌꊍꊎꊏꊐꊑꊒꊓꊔꊕꊖꊗꊘꊙꊚꊛꊜꊝꊞꊟꊠꊡꊢꊣꊤꊥꊦꊧꊨꊩꊪꊫꊬꊭꊮꊯꊰꊱꊲꊳꊴꊵꊶꊷꊸꊹꊺꊻꊼꊽꊾꊿꋀꋁ",
     "ꋂꋃꋄꋅꋆꋇꋈꋉꋊꋋꋌꋍꋎꋏꋐꋑꋒꋓꋔꋕꋖꋗꋘꋙꋚꋛꋜꋝꋞꋟꋠꋡꋢꋣꋤꋥꋦꋧꋨꋩꋪꋫꋬꋭꋮꋯꋰꋱꋲꋳꋴꋵꋶꋷꋸꋹꋺꋻꋼꋽ",
     "ꋾꋿꎀꎁꎂꎃꎄꎅꎆꎇꎈꎉꎊꎋꎌꎍꎎꎏꎐꎑꎒꎓꎔꎕꎖꎗꎘꎙꎚꎛꎜꎝꎞꎟꎠꎡꎢꎣꎤꎥꎦꎧꎨꎩꎪꎫꎬꎭꎮꎯꎰꎱꎲꎳꎴꎵꎶꎷꎸꎹ",
     "ꎺꎻꎼꎽꎾꎿꏀꏁꏂꏃꏄꏅꏆꏇꏈꏉꏊꏋꏌꏍꏎꏏꏐꏑꏒꏓꏔꏕꏖꏗꏘꏙꏚꏛꏜꏝꏞꏟꏠꏡꏢꏣꏤꏥꏦꏧꏨꏩꏪꏫꏬꏭꏮꏯꏰꏱꏲꏳꏴꏵ",
     "ꏶꏷꏸꏹꏺꏻꏼꏽꏾꏿꒀꒁꒂꒃꒄꒅꒆꒇꒈꒉꒊꒋꒌꓐꓑꓒꓓꓔꓕꓖꓗꓘꓙꓚꓛꓜꓝꓞꓟꓠꓡꓢꓣꓤꓥꓦꓧꓨꓩꓪꓫꓬꓭꓮꓯꓰꓱꓲꓳꓴ",
     "ꓵꓶꓷꓸꓹꓺꓻꓼꓽꖀꖁꖂꖃꖄꖅꖆꖇꖈꖉꖊꖋꖌꖍꖎꖏꖐꖑꖒꖓꖔꖕꖖꖗꖘꖙꖚꖛꖜꖝꖞꖟꖠꖡꖢꖣꖤꖥꖦꖧꖨꖩꖪꖫꖬꖭꖮꖯꖰꖱꖲ",
     "ꖳꖴꖵꖶꖷꖸꖹꖺꖻꖼꖽꖾꖿꗀꗁꗂꗃꗄꗅꗆꗇꗈꗉꗊꗋꗌꗍꗎꗏꗐꗑꗒꗓꗔꗕꗖꗗꗘꗙꗚꗛꗜꗝꗞꗟꗠꗡꗢꗣꗤꗥꗦꗧꗨꗩꗪꗫꗬꗭꗮ",
     "ꗯꗰꗱꗲꗳꗴꗵꗶꗷꗸꗹꗺꗻꗼꗽꗾꗿꚀꚁꚂꚃꚄꚅꚆꚇꚈꚉꚊꚋꚌꚍꚎꚏꚐꚑꚒꚓꚔꚕꚖꚗꚘꚙꚚꚛꚜꚝꚠꚡꚢꚣꚤꚥꚦꚧꚨꚩꚪꚫꚬ",
     "ꚭꚮꚯꚰꚱꚲꚳꚴꚵꚶꚷꚸꚹꚺꚻꚼꚽꚾꚿꛀꛁꛂꛃꛄꛅꛆꛇꛈꛉꛊꛋꛌꛍꛎꛏꛐꛑꛒꛓꛔꛕꛖꛗꛘꛙꛚꛛꛜꛝꛞꛟꛠꛡꛢꛣꛤꛥꛦꛧꛨ",
     "ꛩꛪꛫꛬꛭꛮꛯꞀꞁꞂꞃꞄꞅꞆꞇꞈꞋꞌꞍꞎꞏꞐꞑꞒꞓꞔꞕꞖꞗꞘꞙꞚꞛꞜꞝꞞꞟꞠꞡꞢꞣꞤꞥꞦꞧꞨꞩꞪꞫꞬꞭꞮꞯꞰꞱꞲꞳꞴꞵꞶ",
     "ꞷꞸꞹꞺꞻꞼꞽꞾꞿꟀꟁꟂꟃꟄꟅꟆꟇꟈꟉꟊꟐꟑꟓꟕꟖꟗꟘꟙꟲꟳꟴꟵꟶꟷꟸꟹꟺꟻꟼꟽꟾꟿꢂꢃꢄꢅꢆꢇꢈꢉꢊꢋꢌꢍꢎꢏꢐꢑꢒꢓ",
     "ꢔꢕꢖꢗꢘꢙꢚꢛꢜꢝꢞꢟꢠꢡꢢꢣꢤꢥꢦꢧꢨꢩꢪꢫꢬꢭꢮꢯꢰꢱꢲꢳ꣐꣑꣒꣓꣔꣕꣖꣗꣘꣙ꣲꣳꣴꣵꣶꣷꣻꣽꣾꦄꦅꦆꦇꦈꦉꦊꦋꦌ",
     "ꦍꦎꦏꦐꦑꦒꦓꦔꦕꦖꦗꦘꦙꦚꦛꦜꦝꦞꦟꦠꦡꦢꦣꦤꦥꦦꦧꦨꦩꦪꦫꦬꦭꦮꦯꦰꦱꦲꧏ꧐꧑꧒꧓꧔꧕꧖꧗꧘꧙ꧠꧡꧢꧣꧤꧦꧧꧨꧩꧪꧫ",
     "ꧬꧭꧮꧯ꧰꧱꧲꧳꧴꧵꧶꧷꧸꧹ꧺꧻꧼꧽꧾꪀꪁꪂꪃꪄꪅꪆꪇꪈꪉꪊꪋꪌꪍꪎꪏꪐꪑꪒꪓꪔꪕꪖꪗꪘꪙꪚꪛꪜꪝꪞꪟꪠꪡꪢꪣꪤꪥꪦꪧꪨ",
     "ꪩꪪꪫꪬꪭꪮꪯꪱꪵꪶꪹꪺꪻꪼꪽꫀꫂꫛꫜꫝꫠꫡꫢꫣꫤꫥꫦꫧꫨꫩꫪꫲꫳꫴꮀꮁꮂꮃꮄꮅꮆꮇꮈꮉꮊꮋꮌꮍꮎꮏꮐꮑꮒꮓꮔꮕꮖꮗꮘꮙ",
     "ꮚꮛꮜꮝꮞꮟꮠꮡꮢꮣꮤꮥꮦꮧꮨꮩꮪꮫꮬꮭꮮꮯꮰꮱꮲꮳꮴꮵꮶꮷꮸꮹꮺꮻꮼꮽꮾꮿꯀꯁꯂꯃꯄꯅꯆꯇꯈꯉꯊꯋꯌꯍꯎꯏꯐꯑꯒꯓꯔꯕ",
     "ꯖꯗꯘꯙꯚꯛꯜꯝꯞꯟꯠꯡꯢ꯰꯱꯲꯳꯴꯵꯶꯷꯸꯹검겁겂것겄겅겆겇겈겉겊겋게겍겎겏겐겑겒겓겔겕겖겗겘겙겚겛겜겝겞겟겠겡겢겣겤",
     "겥겦겧겨격겪겫견겭겮겯결겱겲겳겴겵겶겷겸겹겺겻겼경겾겿곀곁곂곃계곅곆곇곈곉곊곋곌곍곎곏곐곑곒곓곔곕곖곗곘곙곚곛곜곝곞곟고",
     "곡곢곣곤곥곦곧골곩곪곫곬곭곮곯곰곱곲곳곴공곶곷곸곹곺곻과곽곾곿궀궁궂궃궄궅궆궇궈궉궊궋권궍궎궏궐궑궒궓궔궕궖궗궘궙궚궛궜",
     "궝궞궟궠궡궢궣궤궥궦궧궨궩궪궫궬궭궮궯궰궱궲궳궴궵궶궷궸궹궺궻궼궽궾궿귀귁귂귃귄귅귆귇귈귉귊귋귌귍귎귏귐귑귒귓귔귕귖귗귘",
     "귙귚귛규귝귞귟균귡귢귣귤귥귦귧귨귩귪귫귬귭귮귯귰귱귲귳귴귵귶귷그극귺귻근귽귾귿꺀꺁꺂꺃꺄꺅꺆꺇꺈꺉꺊꺋꺌꺍꺎꺏꺐꺑꺒꺓꺔",
     "꺕꺖꺗꺘꺙꺚꺛꺜꺝꺞꺟꺠꺡꺢꺣꺤꺥꺦꺧꺨꺩꺪꺫꺬꺭꺮꺯꺰꺱꺲꺳꺴꺵꺶꺷꺸꺹꺺꺻꺼꺽꺾꺿껀껁껂껃껄껅껆껇껈껉껊껋껌껍껎껏껐",
     "껑껒껓껔껕껖껗께껙껚껛껜껝껞껟껠껡껢껣껤껥껦껧껨껩껪껫껬껭껮껯껰껱껲껳껴껵껶껷껸껹껺껻껼껽껾껿꾀꾁꾂꾃꾄꾅꾆꾇꾈꾉꾊꾋꾌",
     "꾍꾎꾏꾐꾑꾒꾓꾔꾕꾖꾗꾘꾙꾚꾛꾜꾝꾞꾟꾠꾡꾢꾣꾤꾥꾦꾧꾨꾩꾪꾫꾬꾭꾮꾯꾰꾱꾲꾳꾴꾵꾶꾷꾸꾹꾺꾻꾼꾽꾾꾿꿀꿁꿂꿃꿄꿅꿆꿇꿈",
     "꿉꿊꿋꿌꿍꿎꿏꿐꿑꿒꿓꿔꿕꿖꿗꿘꿙꿚꿛꿜꿝꿞꿟꿠꿡꿢꿣꿤꿥꿦꿧꿨꿩꿪꿫꿬꿭꿮꿯꿰꿱꿲꿳꿴꿵꿶꿷꿸꿹꿺꿻꿼꿽꿾꿿낀낁낂낃낄",
     "낅낆낇낈낉낊낋낌낍낎낏낐낑낒낓낔낕낖낗나낙낚낛난낝낞낟날낡낢낣낤낥낦낧남납낪낫났낭낮낯낰낱낲낳내낵낶낷낸낹낺낻낼낽낾낿냀",
     "냁냂냃냄냅냆냇냈냉냊냋냌냍냎냏냐냑냒냓냔냕냖냗냘냙냚냛냜냝냞냟냠냡냢냣냤냥냦냧냨냩냪냫냬냭냮냯냰냱냲냳냴냵냶냷냸냹냺냻냼",
     "냽냾냿놀놁놂놃놄놅놆놇놈놉놊놋놌농놎놏놐놑높놓놔놕놖놗놘놙놚놛놜놝놞놟놠놡놢놣놤놥놦놧놨놩놪놫놬놭놮놯놰놱놲놳놴놵놶놷놸",
     "놹놺놻놼놽놾놿뇀뇁뇂뇃뇄뇅뇆뇇뇈뇉뇊뇋뇌뇍뇎뇏뇐뇑뇒뇓뇔뇕뇖뇗뇘뇙뇚뇛뇜뇝뇞뇟뇠뇡뇢뇣뇤뇥뇦뇧뇨뇩뇪뇫뇬뇭뇮뇯뇰뇱뇲뇳뇴",
     "뇵뇶뇷뇸뇹뇺뇻뇼뇽뇾뇿늀늁늂늃늄늅늆늇늈늉늊늋늌늍늎늏느늑늒늓는늕늖늗늘늙늚늛늜늝늞늟늠늡늢늣늤능늦늧늨늩늪늫늬늭늮늯늰",
     "늱늲늳늴늵늶늷늸늹늺늻늼늽늾늿닀닁닂닃닄닅닆닇니닉닊닋닌닍닎닏닐닑닒닓닔닕닖닗님닙닚닛닜닝닞닟닠닡닢닣다닥닦닧단닩닪닫달",
     "닭닮닯닰닱닲닳담답닶닷닸당닺닻닼닽닾닿뎀뎁뎂뎃뎄뎅뎆뎇뎈뎉뎊뎋뎌뎍뎎뎏뎐뎑뎒뎓뎔뎕뎖뎗뎘뎙뎚뎛뎜뎝뎞뎟뎠뎡뎢뎣뎤뎥뎦뎧뎨",
     "뎩뎪뎫뎬뎭뎮뎯뎰뎱뎲뎳뎴뎵뎶뎷뎸뎹뎺뎻뎼뎽뎾뎿돀돁돂돃도독돆돇돈돉돊돋돌돍돎돏돐돑돒돓돔돕돖돗돘동돚돛돜돝돞돟돠돡돢돣돤",
     "돥돦돧돨돩돪돫돬돭돮돯돰돱돲돳돴돵돶돷돸돹돺돻돼돽돾돿뒀뒁뒂뒃뒄뒅뒆뒇뒈뒉뒊뒋뒌뒍뒎뒏뒐뒑뒒뒓뒔뒕뒖뒗뒘뒙뒚뒛뒜뒝뒞뒟뒠",
     "뒡뒢뒣뒤뒥뒦뒧뒨뒩뒪뒫뒬뒭뒮뒯뒰뒱뒲뒳뒴뒵뒶뒷뒸뒹뒺뒻뒼뒽뒾뒿듀듁듂듃듄듅듆듇듈듉듊듋듌듍듎듏듐듑듒듓듔듕듖듗듘듙듚듛드",
     "득듞듟든듡듢듣들듥듦듧듨듩듪듫듬듭듮듯듰등듲듳듴듵듶듷듸듹듺듻듼듽듾듿떀떁떂떃떄떅떆떇떈떉떊떋떌떍떎떏떐떑떒떓떔떕떖떗떘",
     "떙떚떛떜떝떞떟떠떡떢떣떤떥떦떧떨떩떪떫떬떭떮떯떰떱떲떳떴떵떶떷떸떹떺떻떼떽떾떿뗀뗁뗂뗃뗄뗅뗆뗇뗈뗉뗊뗋뗌뗍뗎뗏뗐뗑뗒뗓뗔",
     "뗕뗖뗗뗘뗙뗚뗛뗜뗝뗞뗟뗠뗡뗢뗣뗤뗥뗦뗧뗨뗩뗪뗫뗬뗭뗮뗯뗰뗱뗲뗳뗴뗵뗶뗷뗸뗹뗺뗻뗼뗽뗾뗿뚀뚁뚂뚃뚄뚅뚆뚇뚈뚉뚊뚋뚌뚍뚎뚏뚐",
     "뚑뚒뚓뚔뚕뚖뚗뚘뚙뚚뚛뚜뚝뚞뚟뚠뚡뚢뚣뚤뚥뚦뚧뚨뚩뚪뚫뚬뚭뚮뚯뚰뚱뚲뚳뚴뚵뚶뚷뚸뚹뚺뚻뚼뚽뚾뚿뛀뛁뛂뛃뛄뛅뛆뛇뛈뛉뛊뛋뛌",
     "뛍뛎뛏뛐뛑뛒뛓뛔뛕뛖뛗뛘뛙뛚뛛뛜뛝뛞뛟뛠뛡뛢뛣뛤뛥뛦뛧뛨뛩뛪뛫뛬뛭뛮뛯뛰뛱뛲뛳뛴뛵뛶뛷뛸뛹뛺뛻뛼뛽뛾뛿란랁랂랃랄랅랆랇랈",
     "랉랊랋람랍랎랏랐랑랒랓랔랕랖랗래랙랚랛랜랝랞랟랠랡랢랣랤랥랦랧램랩랪랫랬랭랮랯랰랱랲랳랴략랶랷랸랹랺랻랼랽랾랿럀럁럂럃럄",
     "럅럆럇럈량럊럋럌럍럎럏럐럑럒럓럔럕럖럗럘럙럚럛럜럝럞럟럠럡럢럣럤럥럦럧럨럩럪럫러럭럮럯런럱럲럳럴럵럶럷럸럹럺럻럼럽럾럿뢀",
     "뢁뢂뢃뢄뢅뢆뢇뢈뢉뢊뢋뢌뢍뢎뢏뢐뢑뢒뢓뢔뢕뢖뢗뢘뢙뢚뢛뢜뢝뢞뢟뢠뢡뢢뢣뢤뢥뢦뢧뢨뢩뢪뢫뢬뢭뢮뢯뢰뢱뢲뢳뢴뢵뢶뢷뢸뢹뢺뢻뢼",
     "뢽뢾뢿룀룁룂룃룄룅룆룇룈룉룊룋료룍룎룏룐룑룒룓룔룕룖룗룘룙룚룛룜룝룞룟룠룡룢룣룤룥룦룧루룩룪룫룬룭룮룯룰룱룲룳룴룵룶룷룸",
     "룹룺룻룼룽룾룿릀릁릂릃름릅릆릇릈릉릊릋릌릍릎릏릐릑릒릓릔릕릖릗릘릙릚릛릜릝릞릟릠릡릢릣릤릥릦릧릨릩릪릫리릭릮릯린릱릲릳릴",
     "릵릶릷릸릹릺릻림립릾릿맀링맂맃맄맅맆맇마막맊맋만맍많맏말맑맒맓맔맕맖맗맘맙맚맛맜망맞맟맠맡맢맣매맥맦맧맨맩맪맫맬맭맮맯맰",
     "맱맲맳맴맵맶맷맸맹맺맻맼맽맾맿몀몁몂몃몄명몆몇몈몉몊몋몌몍몎몏몐몑몒몓몔몕몖몗몘몙몚몛몜몝몞몟몠몡몢몣몤몥몦몧모목몪몫몬",
     "몭몮몯몰몱몲몳몴몵몶몷몸몹몺못몼몽몾몿뫀뫁뫂뫃뫄뫅뫆뫇뫈뫉뫊뫋뫌뫍뫎뫏뫐뫑뫒뫓뫔뫕뫖뫗뫘뫙뫚뫛뫜뫝뫞뫟뫠뫡뫢뫣뫤뫥뫦뫧뫨",
     "뫩뫪뫫뫬뫭뫮뫯뫰뫱뫲뫳뫴뫵뫶뫷뫸뫹뫺뫻뫼뫽뫾뫿뮀뮁뮂뮃뮄뮅뮆뮇뮈뮉뮊뮋뮌뮍뮎뮏뮐뮑뮒뮓뮔뮕뮖뮗뮘뮙뮚뮛뮜뮝뮞뮟뮠뮡뮢뮣뮤",
     "뮥뮦뮧뮨뮩뮪뮫뮬뮭뮮뮯뮰뮱뮲뮳뮴뮵뮶뮷뮸뮹뮺뮻뮼뮽뮾뮿므믁믂믃믄믅믆믇믈믉믊믋믌믍믎믏믐믑믒믓믔믕믖믗믘믙믚믛믜믝믞믟믠",
     "믡믢믣믤믥믦믧믨믩믪믫믬믭믮믯믰믱믲믳믴믵믶믷미믹믺믻민믽믾믿벀벁벂벃버벅벆벇번벉벊벋벌벍벎벏벐벑벒벓범법벖벗벘벙벚벛벜",
     "벝벞벟베벡벢벣벤벥벦벧벨벩벪벫벬벭벮벯벰벱벲벳벴벵벶벷벸벹벺벻벼벽벾벿변볁볂볃별볅볆볇볈볉볊볋볌볍볎볏볐병볒볓볔볕볖볗볘",
     "볙볚볛볜볝볞볟볠볡볢볣볤볥볦볧볨볩볪볫볬볭볮볯볰볱볲볳보복볶볷본볹볺볻볼볽볾볿부북붂붃분붅붆붇불붉붊붋붌붍붎붏붐붑붒붓붔",
     "붕붖붗붘붙붚붛붜붝붞붟붠붡붢붣붤붥붦붧붨붩붪붫붬붭붮붯붰붱붲붳붴붵붶붷붸붹붺붻붼붽붾붿뷀뷁뷂뷃뷄뷅뷆뷇뷈뷉뷊뷋뷌뷍뷎뷏뷐",
     "뷑뷒뷓뷔뷕뷖뷗뷘뷙뷚뷛뷜뷝뷞뷟뷠뷡뷢뷣뷤뷥뷦뷧뷨뷩뷪뷫뷬뷭뷮뷯뷰뷱뷲뷳뷴뷵뷶뷷뷸뷹뷺뷻뷼뷽뷾뷿뺀뺁뺂뺃뺄뺅뺆뺇뺈뺉뺊뺋뺌",
     "뺍뺎뺏뺐뺑뺒뺓뺔뺕뺖뺗뺘뺙뺚뺛뺜뺝뺞뺟뺠뺡뺢뺣뺤뺥뺦뺧뺨뺩뺪뺫뺬뺭뺮뺯뺰뺱뺲뺳뺴뺵뺶뺷뺸뺹뺺뺻뺼뺽뺾뺿뻀뻁뻂뻃뻄뻅뻆뻇뻈",
     "뻉뻊뻋뻌뻍뻎뻏뻐뻑뻒뻓뻔뻕뻖뻗뻘뻙뻚뻛뻜뻝뻞뻟뻠뻡뻢뻣뻤뻥뻦뻧뻨뻩뻪뻫뻬뻭뻮뻯뻰뻱뻲뻳뻴뻵뻶뻷뻸뻹뻺뻻뻼뻽뻾뻿뾀뾁뾂뾃뾄",
     "뾅뾆뾇뾈뾉뾊뾋뾌뾍뾎뾏뾐뾑뾒뾓뾔뾕뾖뾗뾘뾙뾚뾛뾜뾝뾞뾟뾠뾡뾢뾣뾤뾥뾦뾧뾨뾩뾪뾫뾬뾭뾮뾯뾰뾱뾲뾳뾴뾵뾶뾷뾸뾹뾺뾻뾼뾽뾾뾿뿀",
     "뿁뿂뿃뿄뿅뿆뿇뿈뿉뿊뿋뿌뿍뿎뿏뿐뿑뿒뿓뿔뿕뿖뿗뿘뿙뿚뿛뿜뿝뿞뿟뿠뿡뿢뿣뿤뿥뿦뿧뿨뿩뿪뿫뿬뿭뿮뿯뿰뿱뿲뿳뿴뿵뿶뿷뿸뿹뿺뿻뿼",
     "뿽뿾뿿삀삁삂삃삄삅삆삇삈삉삊삋삌삍삎삏삐삑삒삓삔삕삖삗삘삙삚삛삜삝삞삟삠삡삢삣삤삥삦삧삨삩삪삫사삭삮삯산삱삲삳살삵삶삷삸",
     "삹삺삻삼삽삾삿샀상샂샃샄샅샆샇새색샊샋샌샍샎샏샐샑샒샓샔샕샖샗샘샙샚샛샜생샞샟샠샡샢샣샤샥샦샧샨샩샪샫샬샭샮샯샰샱샲샳샴",
     "샵샶샷샸샹샺샻샼샽샾샿솀솁솂솃솄솅솆솇솈솉솊솋소속솎솏손솑솒솓솔솕솖솗솘솙솚솛솜솝솞솟솠송솢솣솤솥솦솧솨솩솪솫솬솭솮솯솰",
     "솱솲솳솴솵솶솷솸솹솺솻솼솽솾솿쇀쇁쇂쇃쇄쇅쇆쇇쇈쇉쇊쇋쇌쇍쇎쇏쇐쇑쇒쇓쇔쇕쇖쇗쇘쇙쇚쇛쇜쇝쇞쇟쇠쇡쇢쇣쇤쇥쇦쇧쇨쇩쇪쇫쇬",
     "쇭쇮쇯쇰쇱쇲쇳쇴쇵쇶쇷쇸쇹쇺쇻쇼쇽쇾쇿슀슁슂슃슄슅슆슇슈슉슊슋슌슍슎슏슐슑슒슓슔슕슖슗슘슙슚슛슜슝슞슟슠슡슢슣스슥슦슧슨",
     "슩슪슫슬슭슮슯슰슱슲슳슴습슶슷슸승슺슻슼슽슾슿싀싁싂싃싄싅싆싇싈싉싊싋싌싍싎싏싐싑싒싓싔싕싖싗싘싙싚싛시식싞싟신싡싢싣실",
     "싥싦싧싨싩싪싫심십싮싯싰싱싲싳싴싵싶싷싸싹싺싻싼싽싾싿쎀쎁쎂쎃쎄쎅쎆쎇쎈쎉쎊쎋쎌쎍쎎쎏쎐쎑쎒쎓쎔쎕쎖쎗쎘쎙쎚쎛쎜쎝쎞쎟쎠",
     "쎡쎢쎣쎤쎥쎦쎧쎨쎩쎪쎫쎬쎭쎮쎯쎰쎱쎲쎳쎴쎵쎶쎷쎸쎹쎺쎻쎼쎽쎾쎿쏀쏁쏂쏃쏄쏅쏆쏇쏈쏉쏊쏋쏌쏍쏎쏏쏐쏑쏒쏓쏔쏕쏖쏗쏘쏙쏚쏛쏜",
     "쏝쏞쏟쏠쏡쏢쏣쏤쏥쏦쏧쏨쏩쏪쏫쏬쏭쏮쏯쏰쏱쏲쏳쏴쏵쏶쏷쏸쏹쏺쏻쏼쏽쏾쏿쒀쒁쒂쒃쒄쒅쒆쒇쒈쒉쒊쒋쒌쒍쒎쒏쒐쒑쒒쒓쒔쒕쒖쒗쒘",
     "쒙쒚쒛쒜쒝쒞쒟쒠쒡쒢쒣쒤쒥쒦쒧쒨쒩쒪쒫쒬쒭쒮쒯쒰쒱쒲쒳쒴쒵쒶쒷쒸쒹쒺쒻쒼쒽쒾쒿쓀쓁쓂쓃쓄쓅쓆쓇쓈쓉쓊쓋쓌쓍쓎쓏쓐쓑쓒쓓쓔",
     "쓕쓖쓗쓘쓙쓚쓛쓜쓝쓞쓟쓠쓡쓢쓣쓤쓥쓦쓧쓨쓩쓪쓫쓬쓭쓮쓯쓰쓱쓲쓳쓴쓵쓶쓷쓸쓹쓺쓻쓼쓽쓾쓿얀얁얂얃얄얅얆얇얈얉얊얋얌얍얎얏얐",
     "양얒얓얔얕얖얗얘얙얚얛얜얝얞얟얠얡얢얣얤얥얦얧얨얩얪얫얬얭얮얯얰얱얲얳어억얶얷언얹얺얻얼얽얾얿엀엁엂엃엄업없엇었엉엊엋엌",
     "엍엎엏에엑엒엓엔엕엖엗엘엙엚엛엜엝엞엟엠엡엢엣엤엥엦엧엨엩엪엫여역엮엯연엱엲엳열엵엶엷엸엹엺엻염엽엾엿욀욁욂욃욄욅욆욇욈",
     "욉욊욋욌욍욎욏욐욑욒욓요욕욖욗욘욙욚욛욜욝욞욟욠욡욢욣욤욥욦욧욨용욪욫욬욭욮욯우욱욲욳운욵욶욷울욹욺욻욼욽욾욿움웁웂웃웄",
     "웅웆웇웈웉웊웋워웍웎웏원웑웒웓월웕웖웗웘웙웚웛웜웝웞웟웠웡웢웣웤웥웦웧웨웩웪웫웬웭웮웯웰웱웲웳웴웵웶웷웸웹웺웻웼웽웾웿잀",
     "잁잂잃임입잆잇있잉잊잋잌잍잎잏자작잒잓잔잕잖잗잘잙잚잛잜잝잞잟잠잡잢잣잤장잦잧잨잩잪잫재잭잮잯잰잱잲잳잴잵잶잷잸잹잺잻잼",
     "잽잾잿쟀쟁쟂쟃쟄쟅쟆쟇쟈쟉쟊쟋쟌쟍쟎쟏쟐쟑쟒쟓쟔쟕쟖쟗쟘쟙쟚쟛쟜쟝쟞쟟쟠쟡쟢쟣쟤쟥쟦쟧쟨쟩쟪쟫쟬쟭쟮쟯쟰쟱쟲쟳쟴쟵쟶쟷쟸",
     "쟹쟺쟻쟼쟽쟾쟿좀좁좂좃좄종좆좇좈좉좊좋좌좍좎좏좐좑좒좓좔좕좖좗좘좙좚좛좜좝좞좟좠좡좢좣좤좥좦좧좨좩좪좫좬좭좮좯좰좱좲좳좴",
     "좵좶좷좸좹좺좻좼좽좾좿죀죁죂죃죄죅죆죇죈죉죊죋죌죍죎죏죐죑죒죓죔죕죖죗죘죙죚죛죜죝죞죟죠죡죢죣죤죥죦죧죨죩죪죫죬죭죮죯죰",
     "죱죲죳죴죵죶죷죸죹죺죻주죽죾죿즀즁즂즃즄즅즆즇즈즉즊즋즌즍즎즏즐즑즒즓즔즕즖즗즘즙즚즛즜증즞즟즠즡즢즣즤즥즦즧즨즩즪즫즬",
     "즭즮즯즰즱즲즳즴즵즶즷즸즹즺즻즼즽즾즿지직짂짃진짅짆짇질짉짊짋짌짍짎짏짐집짒짓짔징짖짗짘짙짚짛짜짝짞짟짠짡짢짣짤짥짦짧짨",
     "짩짪짫짬짭짮짯짰짱짲짳짴짵짶짷째짹짺짻짼짽짾짿쪀쪁쪂쪃쪄쪅쪆쪇쪈쪉쪊쪋쪌쪍쪎쪏쪐쪑쪒쪓쪔쪕쪖쪗쪘쪙쪚쪛쪜쪝쪞쪟쪠쪡쪢쪣쪤",
     "쪥쪦쪧쪨쪩쪪쪫쪬쪭쪮쪯쪰쪱쪲쪳쪴쪵쪶쪷쪸쪹쪺쪻쪼쪽쪾쪿쫀쫁쫂쫃쫄쫅쫆쫇쫈쫉쫊쫋쫌쫍쫎쫏쫐쫑쫒쫓쫔쫕쫖쫗쫘쫙쫚쫛쫜쫝쫞쫟쫠",
     "쫡쫢쫣쫤쫥쫦쫧쫨쫩쫪쫫쫬쫭쫮쫯쫰쫱쫲쫳쫴쫵쫶쫷쫸쫹쫺쫻쫼쫽쫾쫿쮀쮁쮂쮃쮄쮅쮆쮇쮈쮉쮊쮋쮌쮍쮎쮏쮐쮑쮒쮓쮔쮕쮖쮗쮘쮙쮚쮛쮜",
     "쮝쮞쮟쮠쮡쮢쮣쮤쮥쮦쮧쮨쮩쮪쮫쮬쮭쮮쮯쮰쮱쮲쮳쮴쮵쮶쮷쮸쮹쮺쮻쮼쮽쮾쮿쯀쯁쯂쯃쯄쯅쯆쯇쯈쯉쯊쯋쯌쯍쯎쯏쯐쯑쯒쯓쯔쯕쯖쯗쯘",
     "쯙쯚쯛쯜쯝쯞쯟쯠쯡쯢쯣쯤쯥쯦쯧쯨쯩쯪쯫쯬쯭쯮쯯쯰쯱쯲쯳쯴쯵쯶쯷쯸쯹쯺쯻쯼쯽쯾쯿첀첁첂첃첄첅첆첇첈첉첊첋첌첍첎첏첐첑첒첓첔",
     "첕첖첗처척첚첛천첝첞첟철첡첢첣첤첥첦첧첨첩첪첫첬청첮첯첰첱첲첳체첵첶첷첸첹첺첻첼첽첾첿쳀쳁쳂쳃쳄쳅쳆쳇쳈쳉쳊쳋쳌쳍쳎쳏쳐",
     "쳑쳒쳓쳔쳕쳖쳗쳘쳙쳚쳛쳜쳝쳞쳟쳠쳡쳢쳣쳤쳥쳦쳧쳨쳩쳪쳫쳬쳭쳮쳯쳰쳱쳲쳳쳴쳵쳶쳷쳸쳹쳺쳻쳼쳽쳾쳿춀춁춂춃춄춅춆춇춈춉춊춋춌",
     "춍춎춏춐춑춒춓추축춖춗춘춙춚춛출춝춞춟춠춡춢춣춤춥춦춧춨충춪춫춬춭춮춯춰춱춲춳춴춵춶춷춸춹춺춻춼춽춾춿췀췁췂췃췄췅췆췇췈",
     "췉췊췋췌췍췎췏췐췑췒췓췔췕췖췗췘췙췚췛췜췝췞췟췠췡췢췣췤췥췦췧취췩췪췫췬췭췮췯췰췱췲췳췴췵췶췷췸췹췺췻췼췽췾췿캀캁캂캃캄",
     "캅캆캇캈캉캊캋캌캍캎캏캐캑캒캓캔캕캖캗캘캙캚캛캜캝캞캟캠캡캢캣캤캥캦캧캨캩캪캫캬캭캮캯캰캱캲캳캴캵캶캷캸캹캺캻캼캽캾캿컀",
     "컁컂컃컄컅컆컇컈컉컊컋컌컍컎컏컐컑컒컓컔컕컖컗컘컙컚컛컜컝컞컟컠컡컢컣커컥컦컧컨컩컪컫컬컭컮컯컰컱컲컳컴컵컶컷컸컹컺컻컼",
     "컽컾컿쾀쾁쾂쾃쾄쾅쾆쾇쾈쾉쾊쾋쾌쾍쾎쾏쾐쾑쾒쾓쾔쾕쾖쾗쾘쾙쾚쾛쾜쾝쾞쾟쾠쾡쾢쾣쾤쾥쾦쾧쾨쾩쾪쾫쾬쾭쾮쾯쾰쾱쾲쾳쾴쾵쾶쾷쾸",
     "쾹쾺쾻쾼쾽쾾쾿쿀쿁쿂쿃쿄쿅쿆쿇쿈쿉쿊쿋쿌쿍쿎쿏쿐쿑쿒쿓쿔쿕쿖쿗쿘쿙쿚쿛쿜쿝쿞쿟쿠쿡쿢쿣쿤쿥쿦쿧쿨쿩쿪쿫쿬쿭쿮쿯쿰쿱쿲쿳쿴",
     "쿵쿶쿷쿸쿹쿺쿻쿼쿽쿾쿿킀킁킂킃킄킅킆킇킈킉킊킋킌킍킎킏킐킑킒킓킔킕킖킗킘킙킚킛킜킝킞킟킠킡킢킣키킥킦킧킨킩킪킫킬킭킮킯킰",
     "킱킲킳킴킵킶킷킸킹킺킻킼킽킾킿타탁탂탃탄탅탆탇탈탉탊탋탌탍탎탏탐탑탒탓탔탕탖탗탘탙탚탛태택탞탟탠탡탢탣탤탥탦탧탨탩탪탫탬",
     "탭탮탯탰탱탲탳탴탵탶탷탸탹탺탻탼탽탾탿톀톁톂톃톄톅톆톇톈톉톊톋톌톍톎톏톐톑톒톓톔톕톖톗톘톙톚톛톜톝톞톟토톡톢톣톤톥톦톧톨",
     "톩톪톫톬톭톮톯톰톱톲톳톴통톶톷톸톹톺톻톼톽톾톿퇀퇁퇂퇃퇄퇅퇆퇇퇈퇉퇊퇋퇌퇍퇎퇏퇐퇑퇒퇓퇔퇕퇖퇗퇘퇙퇚퇛퇜퇝퇞퇟퇠퇡퇢퇣퇤",
     "퇥퇦퇧퇨퇩퇪퇫퇬퇭퇮퇯퇰퇱퇲퇳퇴퇵퇶퇷퇸퇹퇺퇻퇼퇽퇾퇿튀튁튂튃튄튅튆튇튈튉튊튋튌튍튎튏튐튑튒튓튔튕튖튗튘튙튚튛튜튝튞튟튠",
     "튡튢튣튤튥튦튧튨튩튪튫튬튭튮튯튰튱튲튳튴튵튶튷트특튺튻튼튽튾튿틀틁틂틃틄틅틆틇틈틉틊틋틌틍틎틏틐틑틒틓틔틕틖틗틘틙틚틛틜",
     "틝틞틟틠틡틢틣틤틥틦틧틨틩틪틫틬틭틮틯티틱틲틳틴틵틶틷틸틹틺틻틼틽틾틿펀펁펂펃펄펅펆펇펈펉펊펋펌펍펎펏펐펑펒펓펔펕펖펗페",
     "펙펚펛펜펝펞펟펠펡펢펣펤펥펦펧펨펩펪펫펬펭펮펯펰펱펲펳펴펵펶펷편펹펺펻펼펽펾펿폀폁폂폃폄폅폆폇폈평폊폋폌폍폎폏폐폑폒폓폔",
     "폕폖폗폘폙폚폛폜폝폞폟폠폡폢폣폤폥폦폧폨폩폪폫포폭폮폯폰폱폲폳폴폵폶폷폸폹폺폻폼폽폾폿풀풁풂풃풄풅풆풇품풉풊풋풌풍풎풏풐",
     "풑풒풓풔풕풖풗풘풙풚풛풜풝풞풟풠풡풢풣풤풥풦풧풨풩풪풫풬풭풮풯풰풱풲풳풴풵풶풷풸풹풺풻풼풽풾풿퓀퓁퓂퓃퓄퓅퓆퓇퓈퓉퓊퓋퓌",
     "퓍퓎퓏퓐퓑퓒퓓퓔퓕퓖퓗퓘퓙퓚퓛퓜퓝퓞퓟퓠퓡퓢퓣퓤퓥퓦퓧퓨퓩퓪퓫퓬퓭퓮퓯퓰퓱퓲퓳퓴퓵퓶퓷퓸퓹퓺퓻퓼퓽퓾퓿햀햁햂햃햄햅햆햇했",
     "행햊햋햌햍햎햏햐햑햒햓햔햕햖햗햘햙햚햛햜햝햞햟햠햡햢햣햤향햦햧햨햩햪햫햬햭햮햯햰햱햲햳햴햵햶햷햸햹햺햻햼햽햾햿헀헁헂헃헄",
     "헅헆헇허헉헊헋헌헍헎헏헐헑헒헓헔헕헖헗험헙헚헛헜헝헞헟헠헡헢헣헤헥헦헧헨헩헪헫헬헭헮헯헰헱헲헳헴헵헶헷헸헹헺헻헼헽헾헿횀",
     "횁횂횃횄횅횆횇횈횉횊횋회획횎횏횐횑횒횓횔횕횖횗횘횙횚횛횜횝횞횟횠횡횢횣횤횥횦횧효횩횪횫횬횭횮횯횰횱횲횳횴횵횶횷횸횹횺횻횼",
     "횽횾횿훀훁훂훃후훅훆훇훈훉훊훋훌훍훎훏훐훑훒훓훔훕훖훗훘훙훚훛훜훝훞훟훠훡훢훣훤훥훦훧훨훩훪훫훬훭훮훯훰훱훲훳훴훵훶훷훸",
     "훹훺훻훼훽훾훿힀힁힂힃힄힅힆힇히힉힊힋힌힍힎힏힐힑힒힓힔힕힖힗힘힙힚힛힜힝힞힟힠힡힢힣ힰힱힲힳힴힵힶힷힸힹힺힻힼힽힾힿퟀ",
     "ퟁퟂퟃퟄퟅퟆퟋퟌퟍퟎퟏퟐퟑퟒퟓퟔퟕퟖퟗퟘퟙퟚퟛퟜퟝퟞퟟퟠퟡퟢퟣퟤퟥퟦퟧퟨퟩퟪퟫퟬퟭퟮퟯퟰퟱퟲퟳퟴퟵퟶퟷퟸퟹퟺퟻ呂女廬旅濾",
     "礪閭驪麗黎力曆歷轢年憐戀撚漣煉璉秊練聯輦蓮連鍊列劣咽烈裂說廉念捻殮簾獵令囹寧嶺怜玲瑩羚聆鈴零靈領例禮醴隸惡了僚寮尿料樂燎",
     "療蓼遼龍暈阮劉杻柳流溜琉留硫紐類六戮陸倫崙淪輪律慄栗率隆利吏履易李梨泥理痢罹裏裡里離匿溺吝燐璘藺隣鱗麟林淋臨立笠粒狀炙識",
     "什茶刺婢嬨廒廙彩徭惘慎愈憎慠懲戴揄搜摒敖晴朗望杖歹殺流滛滋漢瀞煮瞧爵犯猪瑱甆画瘝瘟益盛直睊着磌窱節类絛練缾者荒華蝹襁覆視",
     "調諸請謁諾諭謹變贈輸遲醙鉶陼難靖韛響頋頻鬒龜𢡊𢡄𣏕㮝䀘䀹𥉉𥳐𧻓齃龎ﮀﮁﮂﮃﮄﮅﮆﮇﮈﮉﮊﮋﮌﮍﮎﮏﮐﮑﮒﮓﮔﮕﮖﮗﮘﮙﮚ",
     "ﮛﮜﮝﮞﮟﮠﮡﮢﮣﮤﮥﮦﮧﮨﮩﮪﮫﮬﮭﮮﮯﮰﮱﯓﯔﯕﯖﯗﯘﯙﯚﯛﯜﯝﯞﯟﯠﯡﯢﯣﯤﯥﯦﯧﯨﯩﯪﯫﯬﯭﯮﯯﯰﯱﯲﯳﯴﯵﯶﯷ",
     "ﯸﯹﯺﯻﯼﯽﯾﯿﲀﲁﲂﲃﲄﲅﲆﲇﲈﲉﲊﲋﲌﲍﲎﲏﲐﲑﲒﲓﲔﲕﲖﲗﲘﲙﲚﲛﲜﲝﲞﲟﲠﲡﲢﲣﲤﲥﲦﲧﲨﲩﲪﲫﲬﲭﲮﲯﲰﲱﲲﲳ",
     "ﲴﲵﲶﲷﲸﲹﲺﲻﲼﲽﲾﲿﳀﳁﳂﳃﳄﳅﳆﳇﳈﳉﳊﳋﳌﳍﳎﳏﳐﳑﳒﳓﳔﳕﳖﳗﳘﳙﳚﳛﳜﳝﳞﳟﳠﳡﳢﳣﳤﳥﳦﳧﳨﳩﳪﳫﳬﳭﳮﳯ",
     "ﳰﳱﳲﳳﳴﳵﳶﳷﳸﳹﳺﳻﳼﳽﳾﳿﶀﶁﶂﶃﶄﶅﶆﶇﶈﶉﶊﶋﶌﶍﶎﶏﶒﶓﶔﶕﶖﶗﶘﶙﶚﶛﶜﶝﶞﶟﶠﶡﶢﶣﶤﶥﶦﶧﶨﶩﶪﶫﶬﶭ",
     "ﶮﶯﶰﶱﶲﶳﶴﶵﶶﶷﶸﶹﶺﶻﶼﶽﶾﶿﷀﷁﷂﷃﷄﷅﷆﷇﷰﷱﷲﷳﷴﷵﷶﷷﷸﷹﷺﷻﺀﺁﺂﺃﺄﺅﺆﺇﺈﺉﺊﺋﺌﺍﺎﺏﺐﺑﺒﺓﺔﺕ",
     "ﺖﺗﺘﺙﺚﺛﺜﺝﺞﺟﺠﺡﺢﺣﺤﺥﺦﺧﺨﺩﺪﺫﺬﺭﺮﺯﺰﺱﺲﺳﺴﺵﺶﺷﺸﺹﺺﺻﺼﺽﺾﺿﻀﻁﻂﻃﻄﻅﻆﻇﻈﻉﻊﻋﻌﻍﻎﻏﻐﻑ",
     "ﻒﻓﻔﻕﻖﻗﻘﻙﻚﻛﻜﻝﻞﻟﻠﻡﻢﻣﻤﻥﻦﻧﻨﻩﻪﻫﻬﻭﻮﻯﻰﻱﻲﻳﻴﻵﻶﻷﻸﻹﻺﻻﻼﾀﾁﾂﾃﾄﾅﾆﾇﾈﾉﾊﾋﾌﾍﾎﾏﾐ",
     "ﾑﾒﾓﾔﾕﾖﾗﾘﾙﾚﾛﾜﾝﾞﾟﾠﾡﾢﾣﾤﾥﾦﾧﾨﾩﾪﾫﾬﾭﾮﾯﾰﾱﾲﾳﾴﾵﾶﾷﾸﾹﾺﾻﾼﾽﾾￂￃￄￅￆￇￊￋￌￍￎￏￒￓ",
     "ￔￕￖￗￚￛￜ">>

WordChars == CharsOf(WordCharRows)

\* the characters \s matches, which are those of str.isspace()
WhitespaceRows ==
    <<"\t\n\f\r   ">>

Whitespace == CharsOf(WhitespaceRows)

IsWordAt(text, i) == i >= 1 /\ i <= Len(text) /\ CharAt(text, i) \in WordChars

\* \b between text[i-1] and text[i] (1-based; i = Len(text)+1 is the end)
Boundary(text, i) == IsWordAt(text, i - 1) # IsWordAt(text, i)

\* positions reachable from a position of `from` by matching one alternative
AfterLiteral(text, from, alternatives) ==
    {p + Len(a) : <<p, a>> \in {pa \in from \X alternatives : MatchAt(text, pa[1], pa[2])}}

\* positions reachable from a position of `from` by matching \s+
AfterSpaces(text, from) ==
    {q \in 2..(Len(text) + 1) :
        \E p \in from : p < q /\ \A k \in p..(q - 1) : CharAt(text, k) \in Whitespace}

RECURSIVE AfterSlots(_, _, _)
AfterSlots(text, from, slots) ==
    IF from = {} \/ slots = <<>> THEN from
    ELSE LET here == AfterLiteral(text, from, slots[1])
         IN IF Len(slots) = 1 THEN here
            ELSE AfterSlots(text, AfterSpaces(text, here), Tail(slots))

\* re.search(r"\b slot1 \s+ slot2 ... \b", text)
SearchWords(text, slots) ==
    \E e \in AfterSlots(text, {i \in 1..Len(text) : Boundary(text, i)}, slots) :
        Boundary(text, e)

\* re.search(r"\b first [\b] .* [\b] second \b", text); "." is not a newline
SearchGap(text, first, second, innerBoundaries) ==
    \E i \in 1..Len(text), j \in 1..Len(text) :
        /\ Boundary(text, i)
        /\ MatchAt(text, i, first)
        /\ j >= i + Len(first)
        /\ MatchAt(text, j, second)
        /\ Boundary(text, j + Len(second))
        /\ innerBoundaries => (Boundary(text, i + Len(first)) /\ Boundary(text, j))
        /\ \A k \in (i + Len(first))..(j - 1) : CharAt(text, k) # "\n"

Words(slots, delta) == [kind |-> "words", slots |-> slots, delta |-> delta]
Gap(first, second, inner, delta) ==
    [kind |-> "gap", first |-> first, second |-> second, inner |-> inner,
     delta |-> delta]

Search(rule, text) ==
    IF rule.kind = "words"
    THEN SearchWords(text, rule.slots)
    ELSE SearchGap(text, rule.first, rule.second, rule.inner)

-----------------------------------------------------------------------------
(* Sentiment scorer, local method: AnalysisService._apply_context_adjustments *)

BetterCheaperTargets == {"than", "alternative", "alternatives", "option", "options"}

dissatisfaction_patterns ==
    << Words(<<{"alternative", "alternatives"}, {"to"}>>, FNeg(Pct40)),
       Words(<<{"other"}, {"app", "apps", "option", "options", "service", "services"},
               {"than", "instead of", "better than"}>>, FNeg(Pct40)),
       Words(<<{"replace", "replacement"}, {"for", "to"}>>, FNeg(Pct30)),
       Words(<<{"switch"}, {"from", "away from"}>>, FNeg(Pct30)),
       Words(<<{"better"}, BetterCheaperTargets>>, FNeg(Pct20)),
       Words(<<{"cheaper"}, BetterCheaperTargets>>, FNeg(Pct20)),
       Gap("what", "better", FALSE, FNeg(Pct20)),
       Words(<<{"anything"}, {"better", "cheaper"}>>, FNeg(Pct20)),
       Words(<<{"stop"}, {"using"}>>, FNeg(Pct40)),
       Words(<<{"uninstall"}>>, FNeg(Pct40)),
       Gap("delete", "app", TRUE, FNeg(Pct40)),
       Words(<<{"worse"}, {"than"}>>, FNeg(Pct30)),
       Words(<<{"not"}, {"worth"}>>, FNeg(Pct30)),
       Words(<<{"waste"}, {"of"}>>, FNeg(Pct40)),
       Words(<<{"okay"}, {"but"}>>, FNeg(Pct20)),
       Words(<<{"fine"}, {"but"}>>, FNeg(Pct20)),
       Words(<<{"decent"}, {"but"}>>, FNeg(Pct20)),
       Words(<<{"used"}, {"to"}, {"be"}, {"good", "great", "better"}>>, FNeg(Pct30)),
       Words(<<{"want"}, {"better", "cheaper", "different"}>>, FNeg(Pct20)),
       Words(<<{"need"}, {"something", "anything"}, {"better", "cheaper", "else"}>>,
             FNeg(Pct30)) >>

positive_reinforcement_patterns ==
    << Words(<<{"love"}, {"this", "it", "uber", "lyft"}>>, Pct20),
       Words(<<{"amazing"}>>, Pct30),
       Words(<<{"awesome"}>>, Pct30),
       Words(<<{"perfect"}>>, Pct30),
       Words(<<{"excellent"}>>, Pct30),
       Words(<<{"highly"}, {"recommend"}>>, Pct40),
       Words(<<{"best"}, {"app", "service"}>>, Pct30) >>

negative_reinforcement_patterns ==
    << Words(<<{"terrible"}>>, FNeg(Pct40)),
       Words(<<{"awful"}>>, FNeg(Pct40)),
       Words(<<{"horrible"}>>, FNeg(Pct40)),
       Words(<<{"never"}, {"again", "use", "using"}>>, FNeg(Pct40)),
       Words(<<{"worst"}>>, FNeg(Pct40)),
       Words(<<{"hate"}>>, FNeg(Pct40)),
       Words(<<{"disgusting"}>>, FNeg(Pct40)) >>

\* for pattern, adjustment in rules: if re.search(pattern, text): acc += adjustment
RECURSIVE ApplyRules(_, _, _)
ApplyRules(rules, text, acc) ==
    IF rules = <<>> THEN acc
    ELSE ApplyRules(Tail(rules), text,
                    IF Search(rules[1], text) THEN FAdd(acc, rules[1].delta) ELSE acc)

\* max(-1.0, min(1.0, adjusted_polarity))
Clamped(adjusted_polarity) == FMax(FNeg(One), FMin(One, adjusted_polarity))

\* The adjustment with the positive rules applied whatever the base polarity.
ApplyContextAdjustmentsAlwaysPositive(text, base_polarity) ==
    Clamped(ApplyRules(dissatisfaction_patterns \o positive_reinforcement_patterns
                           \o negative_reinforcement_patterns,
                       Lower(text), base_polarity))

\* The three loops add to one accumulator, one after the other; the loop
\* over the positive rules runs only for a positive base polarity.
_apply_context_adjustments(text, base_polarity) ==
    Clamped(ApplyRules(dissatisfaction_patterns
                           \o (IF FLess(Zero, base_polarity)
                               THEN positive_reinforcement_patterns ELSE <<>>)
                           \o negative_reinforcement_patterns,
                       Lower(text), base_polarity))

_get_sentiment_label(polarity) ==
    IF FLess(Pct5, polarity) THEN "positive"
    ELSE IF FLess(polarity, FNeg(Pct5)) THEN "negative"
    ELSE "neutral"

-----------------------------------------------------------------------------
(* Sentiment scorer, external method:                                      *)
(* AnalysisService._analyze_sentiment_with_openai.  crew.kickoff() either   *)
(* raises or answers with a text; the answer is searched for a JSON object. *)

\* str.strip()
RECURSIVE Strip(_)
Strip(s) ==
    IF Len(s) = 0 THEN s
    ELSE IF CharAt(s, 1) \in Whitespace THEN Strip(SubSeq(s, 2, Len(s)))
    ELSE IF CharAt(s, Len(s)) \in Whitespace THEN Strip(SubSeq(s, 1, Len(s) - 1))
    ELSE s

\* str.find(c): 0-based index of the first occurrence, -1 if none
Find(s, c) ==
    IF Contains(s, c)
    THEN (CHOOSE i \in 1..Len(s) : MatchAt(s, i, c) /\ \A j \in 1..(i - 1) : ~MatchAt(s, j, c)) - 1
    ELSE 0 - 1

\* str.rfind(c): 0-based index of the last occurrence, -1 if none
RFind(s, c) ==
    IF Contains(s, c)
    THEN (CHOOSE i \in 1..Len(s) : MatchAt(s, i, c) /\ \A j \in (i + 1)..Len(s) : ~MatchAt(s, j, c)) - 1
    ELSE 0 - 1

\* s[a:b] for 0 <= a, 0 <= b
Slice(s, a, b) == IF b <= a THEN "" ELSE SubSeq(s, a + 1, Min(b, Len(s)))

\* The JSON objects the modelled answers carry.  json.loads gives the dict
\* for a well-formed object and raises JSONDecodeError for anything else.
JsonObjects ==
    [ a |-> [text |-> "{\"sentiment\": \"negative\", \"confidence\": 0.9, \"polarity\": -0.6, \"reasoning\": \"r\"}",
             value |-> [sentiment |-> "negative", confidence |-> Pct90,
                        polarity |-> FNeg(Pct60), reasoning |-> "r"]],
      b |-> [text |-> "{\"sentiment\": \"positive\", \"confidence\": 0.85, \"polarity\": 2.5}",
             value |-> [sentiment |-> "positive", confidence |-> Pct85,
                        polarity |-> Pct250]],
      c |-> [text |-> "{\"sentiment\": \"mixed\", \"polarity\": 0.1}",
             value |-> [sentiment |-> "mixed", polarity |-> Pct10]],
      d |-> [text |-> "{\"sentiment\": \"negative\", \"confidence\": -0.5, \"polarity\": -1.7}",
             value |-> [sentiment |-> "negative", confidence |-> FNeg(Pct50),
                        polarity |-> FNeg(Pct170)]],
      e |-> [text |-> "{\"sentiment\": \"positive\", \"confidence\": 1.7, \"polarity\": 0.4}",
             value |-> [sentiment |-> "positive", confidence |-> Pct170,
                        polarity |-> Pct40]],
      f |-> [text |-> "{}", value |-> <<>>],
      g |-> [text |-> "{\"sentiment\": \"negative\", \"polarity\": null}",
             value |-> [sentiment |-> "negative", polarity |-> NoneDict]] ]

\* The JSON objects the modelled answers of the Gemini classifier carry;
\* keywords_matched and topics are lists whenever they are present, and a
\* null among their items is None.
GeminiObjects ==
    [ a |-> [text |-> "{\"sentiment\": \"negative\", \"intent\": \"complaint\", \"priority\": \"high\", \"confidence_score\": 0.85, \"keywords_matched\": [\"app crashes\", \"payment\", \"driver\"], \"topics\": [\"technical_issues\", \"billing\"]}",
             value |-> [sentiment |-> "negative", intent |-> "complaint",
                        priority |-> "high", confidence_score |-> Pct85,
                        keywords_matched |-> <<"app crashes", "payment", "driver">>,
                        topics |-> <<"technical_issues", "billing">>]],
      b |-> [text |-> "{\"sentiment\": \"positive\", \"intent\": \"neutral\", \"priority\": \"low\", \"confidence_score\": 1.7, \"keywords_matched\": [\"k1\", \"k2\", \"k3\", \"k4\", \"k5\", \"k6\", \"k7\", \"k8\"], \"topics\": [\"t1\", \"t2\", \"t3\", \"t4\", \"t5\"]}",
             value |-> [sentiment |-> "positive", intent |-> "neutral",
                        priority |-> "low", confidence_score |-> Pct170,
                        keywords_matched |-> <<"k1", "k2", "k3", "k4", "k5", "k6", "k7", "k8">>,
                        topics |-> <<"t1", "t2", "t3", "t4", "t5">>]],
      c |-> [text |-> "{\"sentiment\": \"neutral\", \"intent\": \"question\", \"priority\": \"medium\", \"confidence_score\": -0.3}",
             value |-> [sentiment |-> "neutral", intent |-> "question",
                        priority |-> "medium", confidence_score |-> FNeg(Pct30)]],
      d |-> [text |-> "{\"sentiment\": \"positive\", \"intent\": \"praise\", \"priority\": \"low\", \"confidence_score\": 0.9}",
             value |-> [sentiment |-> "positive", intent |-> "praise",
                        priority |-> "low", confidence_score |-> Pct90]],
      e |-> [text |-> "{\"sentiment\": \"negative\", \"intent\": \"complaint\", \"priority\": \"critical\"}",
             value |-> [sentiment |-> "negative", intent |-> "complaint",
                        priority |-> "critical"]],
      f |-> [text |-> "{\"sentiment\": \"negative\", \"intent\": \"complaint\", \"priority\": \"high\", \"confidence_score\": 0.8, \"keywords_matched\": [null, \"app\"], \"topics\": [\"billing\"]}",
             value |-> [sentiment |-> "negative", intent |-> "complaint",
                        priority |-> "high", confidence_score |-> Pct80,
                        keywords_matched |-> <<None, "app">>,
                        topics |-> <<"billing">>]] ]

JsonDocuments ==
    {JsonObjects[k] : k \in DOMAIN JsonObjects}
    \cup {GeminiObjects[k] : k \in DOMAIN GeminiObjects}

JsonLoads(json_str) ==
    IF \E doc \in JsonDocuments : doc.text = json_str
    THEN [ok |-> TRUE,
          value |-> (CHOOSE doc \in JsonDocuments : doc.text = json_str).value]
    ELSE [ok |-> FALSE]

\* What crew.kickoff() does: raise, or answer with one of these texts.
Kickoffs ==
    {[raises |-> TRUE]}
    \cup {[raises |-> FALSE, text |-> t] :
            t \in {JsonObjects[k].text : k \in DOMAIN JsonObjects}
                  \cup { "I cannot analyze this text.",
                         "  Here is the result: " \o JsonObjects.b.text \o " Done.\n",
                         "{\"sentiment\": \"negative\", \"polarity\": -0.6",
                         "{sentiment: negative}",
                         "}{",
                         JsonObjects.a.text \o " or " \o JsonObjects.d.text }}

\* Returns the result dict, or None when the call raised or no JSON object
\* could be parsed (both exception handlers fall through to "return None").
OpenaiResult(parsed) ==
    IF parsed.ok
    THEN [polarity |-> Get(parsed.value, "polarity", Zero),
          subjectivity |-> Pct80,
          sentiment_label |-> Get(parsed.value, "sentiment", "neutral"),
          confidence |-> Get(parsed.value, "confidence", Pct80),
          reasoning |-> Get(parsed.value, "reasoning", ""),
          method |-> "openai_crewai"]
    ELSE NoneDict

JsonBetween(result_text, start_idx, end_idx) ==
    IF start_idx # 0 - 1 /\ end_idx # 0 - 1
    THEN OpenaiResult(JsonLoads(Slice(result_text, start_idx, end_idx)))
    ELSE NoneDict

JsonIn(result_text) ==
    JsonBetween(result_text, Find(result_text, "{"), RFind(result_text, "}") + 1)

_analyze_sentiment_with_openai(text, kickoff) ==
    IF kickoff.raises THEN NoneDict ELSE JsonIn(Strip(kickoff.text))

\* The local method: TextBlob's estimate `blob` adjusted by the context rules.
Enhanced(blob, adjusted_polarity) ==
    [polarity |-> adjusted_polarity,
     subjectivity |-> blob.subjectivity,
     sentiment_label |-> _get_sentiment_label(adjusted_polarity),
     base_polarity |-> blob.polarity,
     method |-> "textblob_enhanced"]

TextblobEnhanced(text, blob) ==
    Enhanced(blob, _apply_context_adjustments(text, blob.polarity))

\* analyze_sentiment(text) with the answers of its two collaborators:
\* blob = TextBlob(text).sentiment, kickoff = what crew.kickoff() does.
OpenaiOrLocal(openai_key, openai_result, text, blob) ==
    IF openai_key /\ openai_result # NoneDict
    THEN openai_result
    ELSE TextblobEnhanced(text, blob)

analyze_sentiment(text, openai_key, blob, kickoff) ==
    OpenaiOrLocal(openai_key, _analyze_sentiment_with_openai(text, kickoff), text, blob)

-----------------------------------------------------------------------------
(* Crisis detector: AnalysisService.detect_crisis_signals *)

crisis_keywords ==
    << [category |-> "technical",
        keywords |-> <<"crash", "not working", "broken", "down", "offline", "error">>],
       [category |-> "payment",
        keywords |-> <<"charged", "billing", "payment", "money", "refund", "overcharge">>],
       [category |-> "security",
        keywords |-> <<"hacked", "security", "privacy", "data breach", "stolen">>],
       [category |-> "service",
        keywords |-> <<"rude", "unprofessional", "terrible service", "bad support">>] >>

\* str + None and None + str raise TypeError: a review whose content or
\* title is there and null has no text
TextRaises(review) ==
    Get(review, "content", "") = None \/ Get(review, "title", "") = None

\* (review.get('content', '') + ' ' + review.get('title', '')).lower()
ReviewText(review) ==
    IF TextRaises(review) THEN Raises("TypeError")
    ELSE Lower(Get(review, "content", "") \o " " \o Get(review, "title", ""))

AffectedReview(review, content, category, keyword) ==
    [review_id |-> Get(review, "id", "unknown"),
     content_snippet |-> SubSeq(content, 1, Min(100, Len(content))) \o "...",
     category |-> category,
     keyword |-> keyword,
     platform |-> Get(review, "platform", "unknown")]

\* An inner loop without its break: one sample per matching keyword.
CategorySignalsNoBreak(review, content, entry) ==
    LET hits == Matched(content, entry.keywords)
    IN [i \in 1..Len(hits) |-> AffectedReview(review, content, entry.category, hits[i])]

\* The inner loop over one category's keywords: the first keyword found in
\* the content gives one sample, then break.
CategorySignals(review, content, entry) ==
    LET hits == Matched(content, entry.keywords)
    IN IF hits = <<>> THEN <<>>
       ELSE <<AffectedReview(review, content, entry.category, hits[1])>>

RECURSIVE ReviewSignals(_, _, _)
ReviewSignals(review, content, entries) ==
    IF entries = <<>> THEN <<>>
    ELSE CategorySignals(review, content, entries[1])
         \o ReviewSignals(review, content, Tail(entries))

\* The loop has no handler: the first review without a text ends the call
CrisisRaises(reviews) == \E i \in 1..Len(reviews) : TextRaises(reviews[i])

RECURSIVE ScanSignals(_)
ScanSignals(reviews) ==
    IF reviews = <<>> THEN <<>>
    ELSE ReviewSignals(reviews[1], ReviewText(reviews[1]), crisis_keywords)
         \o ScanSignals(Tail(reviews))

\* Every sample appended to affected_reviews, in scan order.
AllSignals(reviews) ==
    IF CrisisRaises(reviews) THEN Raises("TypeError") ELSE ScanSignals(reviews)

\* The keys of the crisis_signals defaultdict, in insertion order.
RECURSIVE TouchedCategories(_, _)
TouchedCategories(signals, seen) ==
    IF signals = <<>> THEN <<>>
    ELSE IF signals[1].category \in seen THEN TouchedCategories(Tail(signals), seen)
    ELSE <<signals[1].category>>
         \o TouchedCategories(Tail(signals), seen \cup {signals[1].category})

\* crisis_signals[category]
SignalCount(signals, category) ==
    Cardinality({i \in 1..Len(signals) : signals[i].category = category})

\* Thresholds taken as strict lower bounds.
CrisisLevelStrict(total_signals) ==
    IF total_signals > 10 THEN "critical"
    ELSE IF total_signals > 5 THEN "high"
    ELSE IF total_signals > 2 THEN "medium"
    ELSE "low"

CrisisLevel(total_signals) ==
    IF total_signals >= 10 THEN "critical"
    ELSE IF total_signals >= 5 THEN "high"
    ELSE IF total_signals >= 2 THEN "medium"
    ELSE "low"

RECURSIVE CrisisAlerts(_, _)
CrisisAlerts(categories, signals) ==
    IF categories = <<>> THEN <<>>
    ELSE LET count == SignalCount(signals, categories[1])
         IN (IF count >= 2
             THEN <<[category |-> categories[1],
                     severity |-> IF count >= 5 THEN "high" ELSE "medium",
                     count |-> count,
                     message |-> "Spike detected in " \o categories[1] \o " issues: "
                                 \o ToString(count) \o " mentions in recent reviews"]>>
             ELSE <<>>)
            \o CrisisAlerts(Tail(categories), signals)

_get_crisis_recommendation(crisis_level) ==
    IF crisis_level = "critical"
    THEN "IMMEDIATE ACTION REQUIRED: Contact crisis management team and prepare public statement"
    ELSE IF crisis_level = "high"
    THEN "URGENT: Escalate to management and prepare response strategy"
    ELSE IF crisis_level = "medium"
    THEN "MONITOR CLOSELY: Increase response frequency and track trends"
    ELSE "NORMAL: Continue standard monitoring and response procedures"

detect_crisis_signals(reviews) ==
    IF reviews = <<>>
    THEN [alerts |-> <<>>, crisis_level |-> "none", total_signals |-> 0]
    ELSE IF CrisisRaises(reviews) THEN Raises("TypeError")
    ELSE LET signals == AllSignals(reviews)
             touched == TouchedCategories(signals, {})
             total_signals == SumSeq([i \in 1..Len(touched) |->
                                         SignalCount(signals, touched[i])])
             crisis_level == CrisisLevel(total_signals)
         IN [alerts |-> CrisisAlerts(touched, signals),
             crisis_level |-> crisis_level,
             total_signals |-> total_signals,
             category_breakdown |-> [c \in Range(touched) |-> SignalCount(signals, c)],
             affected_reviews |-> Take(signals, 5),
             recommendation |-> _get_crisis_recommendation(crisis_level)]

-----------------------------------------------------------------------------
(* Reputation scorer: _calculate_reputation_score (api/main.py).            *)

\* the sum of a list of floats, added from the left to the accumulator
RECURSIVE FSumFrom(_, _)
FSumFrom(seq, acc) ==
    IF seq = <<>> THEN acc ELSE FSumFrom(Tail(seq), FAdd(acc, seq[1]))

SentimentScore(mention) ==
    IF mention.sentiment = "positive" THEN Num80
    ELSE IF mention.sentiment = "negative" THEN Num20
    ELSE Num50

PriorityWeight(mention) ==
    IF mention.priority = "critical" THEN Num3
    ELSE IF mention.priority = "high" THEN Num2
    ELSE IF mention.priority = "medium" THEN Num3_2
    ELSE One

IntentModifier(mention) ==
    IF mention.intent = "complaint" THEN Num2
    ELSE IF mention.intent = "recommendation" THEN Num3_2
    ELSE One

\* mention.confidence_score or 0.5: None and 0.0 are both falsy
ConfidenceWeight(mention) ==
    IF mention.confidence_score = NoneNum THEN Pct50
    ELSE IF IsZero(mention.confidence_score[1]) THEN Pct50
    ELSE mention.confidence_score[1]

FinalWeight(mention) ==
    FMul(FMul(PriorityWeight(mention), IntentModifier(mention)),
         ConfidenceWeight(mention))

\* The loop's two accumulators after all mentions.
TotalWeight(ms) == FSumFrom([i \in 1..Len(ms) |-> FinalWeight(ms[i])], Zero)

WeightedScore(ms) ==
    FSumFrom([i \in 1..Len(ms) |-> FMul(SentimentScore(ms[i]), FinalWeight(ms[i]))],
             Zero)

\* The scorer without its final clamp.
UnclampedOfWeights(weighted_score, total_weight) ==
    IF FLess(Zero, total_weight) THEN FDiv(weighted_score, total_weight) ELSE Num50

CalculateReputationScoreUnclamped(ms) ==
    IF ms = <<>> THEN Num50
    ELSE UnclampedOfWeights(WeightedScore(ms), TotalWeight(ms))

ScoreOfWeights(weighted_score, total_weight) ==
    FMax(Zero, FMin(Num100,
                    IF FLess(Zero, total_weight)
                    THEN FDiv(weighted_score, total_weight)
                    ELSE Num50))

_calculate_reputation_score(ms) ==
    IF ms = <<>> THEN Num50
    ELSE ScoreOfWeights(WeightedScore(ms), TotalWeight(ms))

-----------------------------------------------------------------------------
(* Calls of the pure classifiers.  The initial state holds a pending call   *)
(* with its arguments in `call`; the call's action puts the result in       *)
(* `ret`.  The store and the environment are untouched.                     *)

InitCall(calls) ==
    /\ call \in calls
    /\ pc = "pending"
    /\ ret = None
    /\ analyses = <<>>
    /\ running = <<>>
    /\ products = StoredProducts
    /\ mentions = <<>>
    /\ env_openai = FALSE
    /\ textblob = <<>>

SentimentLabels == {"positive", "negative", "neutral"}
IntentNames == {"complaint", "question", "recommendation", "neutral_mention"}

\* Sentiment results as _determine_priority reads them: the local method
\* gives no "confidence" key, the external one does.
SentimentDicts ==
    {[sentiment_label |-> l] : l \in SentimentLabels}
    \cup {[sentiment_label |-> l, confidence |-> c] :
            l \in SentimentLabels, c \in {Pct50, Pct70, Pct90}}

IntentDicts ==
    {[intent |-> i, confidence |-> c] :
        i \in IntentNames, c \in {Num1_3, Pct50, Num2_3, One}}

ClassifyIntent ==
    /\ call.op = "classify_intent"
    /\ pc = "pending"
    /\ pc' = "done"
    /\ ret' = classify_intent(call.text)
    /\ UNCHANGED <<call, mentions, env_openai, textblob, analyses, running, products>>

InitIntent == InitCall({[op |-> "classify_intent", text |-> t] : t \in Texts})

NextIntent == ClassifyIntent

SpecIntent == InitIntent /\ [][NextIntent]_vars

DeterminePriority ==
    /\ call.op = "_determine_priority"
    /\ pc = "pending"
    /\ pc' = "done"
    /\ ret' = _determine_priority(call.sentiment, call.intent, call.content)
    /\ UNCHANGED <<call, mentions, env_openai, textblob, analyses, running, products>>

InitPriority ==
    InitCall({[op |-> "_determine_priority", sentiment |-> s, intent |-> i,
               content |-> t] :
                 s \in SentimentDicts, i \in IntentDicts, t \in Texts})

NextPriority == DeterminePriority

SpecPriority == InitPriority /\ [][NextPriority]_vars

\* TextBlob(text).sentiment is an estimate made outside this program: a
\* fixed function of the text, which may give any polarity in [-1, 1] to a
\* text that is not empty.
BasePolarities ==
    {FNeg(One), FNeg(Pct50), Zero, Pct10, Pct15, Pct30, Pct35, Pct70, One}

BlobsOf(text) ==
    IF text = "" THEN {[polarity |-> Zero, subjectivity |-> Zero]}
    ELSE {[polarity |-> p, subjectivity |-> Pct50] : p \in BasePolarities}

\* Without the API key crew.kickoff() is never called.
NotCalled == [raises |-> TRUE]

AnalyzeSentiment ==
    /\ call.op = "analyze_sentiment"
    /\ pc = "pending"
    /\ pc' = "done"
    /\ ret' = analyze_sentiment(call.text, env_openai, textblob[call.text], call.kickoff)
    /\ UNCHANGED <<call, mentions, env_openai, textblob, analyses, running, products>>

\* Every text without the API key; every fragment with the key and each
\* behaviour of the external call.
InitSentiment ==
    /\ \/ /\ env_openai = FALSE
          /\ call \in {[op |-> "analyze_sentiment", text |-> t, kickoff |-> NotCalled] :
                          t \in Texts}
       \/ /\ env_openai = TRUE
          /\ call \in {[op |-> "analyze_sentiment", text |-> t, kickoff |-> k] :
                          t \in Fragments, k \in Kickoffs}
    /\ textblob \in [{call.text} -> BlobsOf(call.text)]
    /\ pc = "pending"
    /\ ret = None
    /\ analyses = <<>>
    /\ running = <<>>
    /\ products = StoredProducts
    /\ mentions = <<>>

NextSentiment == AnalyzeSentiment

SpecSentiment == InitSentiment /\ [][NextSentiment]_vars

\* Review dicts given to the crisis detector; title, id and platform are
\* optional keys.  The last two hold a null: a content and a title.
Reviews ==
    { [id |-> "r1", platform |-> "Reddit",
       content |-> "App CRASH, charged twice, got hacked, rude staff"],
      [id |-> "r2", platform |-> "Reddit",
       content |-> "crash after crash, totally broken", title |-> "Offline again"],
      [id |-> "r3", platform |-> "App Store",
       content |-> "Not working since the download", title |-> "help"],
      [id |-> "r4", content |-> "refund my money", title |-> ""],
      [content |-> "great ride"],
      [id |-> "r6", platform |-> "Trustpilot", content |-> "fast pickup",
       title |-> "Bad support and privacy worries"],
      [id |-> "r7", content |-> None, title |-> "App crash at pickup"],
      [content |-> "app crash", title |-> None] }

MaxBatch == 3

DetectCrisisSignals ==
    /\ call.op = "detect_crisis_signals"
    /\ pc = "pending"
    /\ pc' = IF call.reviews # <<>> /\ CrisisRaises(call.reviews)
             THEN "raised" ELSE "done"
    /\ ret' = detect_crisis_signals(call.reviews)
    /\ UNCHANGED <<call, mentions, env_openai, textblob, analyses, running, products>>

InitCrisis ==
    InitCall({[op |-> "detect_crisis_signals", reviews |-> r] :
                 r \in SeqsUpTo(Reviews, MaxBatch)})

NextCrisis == DetectCrisisSignals

SpecCrisis == InitCrisis /\ [][NextCrisis]_vars

\* Classified fields of the mentions given to the scorer.  The pair
\* (None, None) with sentiment neutral and confidence 0 is a mention as
\* _save_collected_data stores it; a negative confidence is what ingestion
\* stores when the external strategy answers with one.
PriorityIntentPairs ==
    { <<"critical", "complaint">>, <<"high", "question">>,
      <<"medium", "recommendation">>, <<"low", "neutral_mention">>,
      <<None, None>> }

ScoredMentions ==
    {[sentiment |-> s, priority |-> pi[1], intent |-> pi[2], confidence_score |-> c] :
        s \in SentimentLabels, pi \in PriorityIntentPairs,
        c \in {NoneNum, Num(Zero), Num(FNeg(Pct50)), Num(One)}}

MaxMentions == 2

CalculateReputationScore ==
    /\ call.op = "_calculate_reputation_score"
    /\ pc = "pending"
    /\ pc' = "done"
    /\ ret' = _calculate_reputation_score(call.mentions)
    /\ UNCHANGED <<call, mentions, env_openai, textblob, analyses, running, products>>

InitScore ==
    InitCall({[op |-> "_calculate_reputation_score", mentions |-> ms] :
                 ms \in SeqsUpTo(ScoredMentions, MaxMentions)})

NextScore == CalculateReputationScore

SpecScore == InitScore /\ [][NextScore]_vars

-----------------------------------------------------------------------------
(* Dates.  A datetime is the record of its fields, tzinfo being NoneNum for *)
(* a naive value and Num(utcoffset) for an aware one; a timedelta is        *)
(* normalised as Python normalises it: days, 0 <= seconds < 86400 and       *)
(* 0 <= microseconds < 1000000.  datetime.fromisoformat is the parser of    *)
(* CPython 3.11, which _create_mention_from_review calls on a source date.  *)

Invalid == [ok |-> FALSE]

_DAYS_IN_MONTH == <<31, 28, 31, 30, 31, 30, 31, 31, 30, 31, 30, 31>>

_is_leap(year) == year % 4 = 0 /\ (year % 100 # 0 \/ year % 400 = 0)

_days_before_year(year) ==
    LET y == year - 1
    IN y * 365 + y \div 4 - y \div 100 + y \div 400

_days_in_month(year, month) ==
    IF month = 2 /\ _is_leap(year) THEN 29 ELSE _DAYS_IN_MONTH[month]

RECURSIVE _days_before_month(_, _)
_days_before_month(year, month) ==
    IF month = 1 THEN 0
    ELSE _days_before_month(year, month - 1) + _days_in_month(year, month - 1)

_ymd2ord(year, month, day) ==
    _days_before_year(year) + _days_before_month(year, month) + day

_DI400Y == _days_before_year(401)
_DI100Y == _days_before_year(101)
_DI4Y == _days_before_year(5)

\* the month that holds day n of the year, counted from 0
MonthOfDay(year, n) ==
    CHOOSE m \in 1..12 :
        /\ _days_before_month(year, m) <= n
        /\ n < _days_before_month(year, m) + _days_in_month(year, m)

DayOfMonth(year, month, n) == <<year, month, n - _days_before_month(year, month) + 1>>

_ord2ymd(ordinal) ==
    LET n0 == ordinal - 1
        n400 == n0 \div _DI400Y
        n1a == n0 % _DI400Y
        n100 == n1a \div _DI100Y
        n2a == n1a % _DI100Y
        n4 == n2a \div _DI4Y
        n3a == n2a % _DI4Y
        n1 == n3a \div 365
        n == n3a % 365
        year == n400 * 400 + 1 + n100 * 100 + n4 * 4 + n1
    IN IF n1 = 4 \/ n100 = 4 THEN <<year - 1, 12, 31>>
       ELSE DayOfMonth(year, MonthOfDay(year, n), n)

\* the day number of the Monday starting ISO week 1
_isoweek1monday(year) ==
    LET firstday == _ymd2ord(year, 1, 1)
        firstweekday == (firstday + 6) % 7
    IN IF firstweekday > 3 THEN firstday - firstweekday + 7 ELSE firstday - firstweekday

\* datetime(year, month, day, hour, minute, second, microsecond, tzinfo):
\* the value, or ValueError for a field out of range
datetime(year, month, day, hour, minute, second, microsecond, tzinfo) ==
    IF /\ 1 <= year /\ year <= 9999
       /\ 1 <= month /\ month <= 12
       /\ 1 <= day /\ day <= _days_in_month(year, month)
       /\ 0 <= hour /\ hour <= 23
       /\ 0 <= minute /\ minute <= 59
       /\ 0 <= second /\ second <= 59
       /\ 0 <= microsecond /\ microsecond <= 999999
    THEN [ok |-> TRUE,
          value |-> [year |-> year, month |-> month, day |-> day, hour |-> hour,
                     minute |-> minute, second |-> second,
                     microsecond |-> microsecond, tzinfo |-> tzinfo]]
    ELSE Invalid

Gregorian(ymd) == [ok |-> TRUE, year |-> ymd[1], month |-> ymd[2], day |-> ymd[3]]

_isoweek_to_gregorian(year, week, day) ==
    IF year < 1 \/ year > 9999 THEN Invalid
    ELSE LET first_weekday == _ymd2ord(year, 1, 1) % 7
             long_year == first_weekday = 4 \/ (first_weekday = 3 /\ _is_leap(year))
         IN IF ~(0 < week /\ week < 53) /\ ~(week = 53 /\ long_year) THEN Invalid
            ELSE IF ~(0 < day /\ day < 8) THEN Invalid
            ELSE Gregorian(_ord2ymd(_isoweek1monday(year) + (week - 1) * 7 + (day - 1)))

\* The characters of one byte in UTF-8
AsciiRows ==
    <<"\t\n\f\r !\"#$%&'()*+,-./0123456789:;<=>?@ABCDEFGHIJKLMNOPQRSTUVWXYZ[\\]^_abcdefghijklmnopqrstuvwxyz{|}~">>

AsciiChars == CharsOf(AsciiRows)

At(s, i) == IF 0 <= i /\ i < Len(s) THEN CharAt(s, i + 1) ELSE ""

_is_ascii_digit(c) == \E d \in 1..10 : CharAt("0123456789", d) = c

DigitValue(c) == (CHOOSE d \in 1..10 : CharAt("0123456789", d) = c) - 1

\* The number written by the n decimal digits of s from index pos, -1 when
\* they are not n digits.
RECURSIVE ParseDigits(_, _, _)
ParseDigits(s, pos, n) ==
    IF n = 0 THEN 0
    ELSE IF ~_is_ascii_digit(At(s, pos + n - 1)) THEN 0 - 1
    ELSE IF ParseDigits(s, pos, n - 1) < 0 THEN 0 - 1
    ELSE ParseDigits(s, pos, n - 1) * 10 + DigitValue(At(s, pos + n - 1))

\* The first index from idx on that holds no digit
RECURSIVE DigitsEnd(_, _)
DigitsEnd(s, idx) ==
    IF idx < Len(s) /\ _is_ascii_digit(At(s, idx)) THEN DigitsEnd(s, idx + 1) ELSE idx

\* Where the date part ends, for a text of 7 characters or more; -1 for
\* "Invalid ISO string"
_find_isoformat_datetime_separator(dtstr) ==
    LET len_dtstr == Len(dtstr)
    IN IF len_dtstr = 7 THEN 7
       ELSE IF At(dtstr, 4) = "-"
       THEN IF At(dtstr, 5) = "W"
            THEN IF len_dtstr > 8 /\ At(dtstr, 8) = "-"
                 THEN IF len_dtstr = 9 THEN 0 - 1
                      ELSE IF len_dtstr > 10 /\ _is_ascii_digit(At(dtstr, 10)) THEN 8
                      ELSE 10
                 ELSE 8
            ELSE 10
       ELSE IF At(dtstr, 4) = "W"
       THEN LET idx == DigitsEnd(dtstr, 7)
            IN IF idx < 9 THEN idx ELSE IF idx % 2 = 0 THEN 7 ELSE 8
       ELSE 8

_parse_isoformat_date(dtstr) ==
    LET year == ParseDigits(dtstr, 0, 4)
        has_sep == At(dtstr, 4) = "-"
        pos == IF has_sep THEN 5 ELSE 4
    IN IF year < 0 THEN Invalid
       ELSE IF At(dtstr, pos) = "W"
       THEN LET weekno == ParseDigits(dtstr, pos + 1, 2)
                more == Len(dtstr) > pos + 3
                dayno == IF more
                         THEN ParseDigits(dtstr, IF has_sep THEN pos + 4 ELSE pos + 3, 1)
                         ELSE 1
            IN IF weekno < 0 \/ dayno < 0 THEN Invalid
               ELSE IF more /\ (At(dtstr, pos + 3) = "-") # has_sep THEN Invalid
               ELSE _isoweek_to_gregorian(year, weekno, dayno)
       ELSE LET month == ParseDigits(dtstr, pos, 2)
                day == ParseDigits(dtstr, IF has_sep THEN pos + 3 ELSE pos + 2, 2)
            IN IF month < 0 \/ day < 0 THEN Invalid
               ELSE IF (At(dtstr, pos + 2) = "-") # has_sep THEN Invalid
               ELSE [ok |-> TRUE, year |-> year, month |-> month, day |-> day]

_FRACTION_CORRECTION == <<100000, 10000, 1000, 100, 10, 1>>

\* The interpreter's fromisoformat reads the text in UTF-8, one byte at a
\* time.  All it asks of a byte is whether it is an ASCII digit or one of a
\* few ASCII marks, and of a character beyond ASCII only that it takes more
\* than one byte: such a character is written twice here.
RECURSIVE Utf8(_)
Utf8(s) ==
    IF s = "" THEN ""
    ELSE (IF CharAt(s, 1) \in AsciiChars THEN CharAt(s, 1)
          ELSE CharAt(s, 1) \o CharAt(s, 1)) \o Utf8(SubSeq(s, 2, Len(s)))

TimeError == [rv |-> 0 - 1]

\* The fraction of a second from index p on, up to p_end: the first six
\* digits count, further digits are skipped; rv is 1 when the text goes on
\* after them
ParseFraction(tstr, p, p_end, vals) ==
    LET to_parse == Min(6, p_end - p)
        microsecond == ParseDigits(tstr, p, to_parse)
    IN IF microsecond < 0 THEN TimeError
       ELSE [rv |-> IF At(tstr, DigitsEnd(tstr, p + to_parse)) # "" THEN 1 ELSE 0,
             hour |-> vals[1], minute |-> vals[2], second |-> vals[3],
             microsecond |-> microsecond * _FRACTION_CORRECTION[to_parse]]

\* [HH[:?MM[:?SS]]] and the fraction, read from index p up to p_end; i is
\* the component being read (0, 1, 2), vals the components so far.  rv is 1
\* when one character more than the components was seen, -1 for a text
\* that cannot be read.
RECURSIVE _parse_hh_mm_ss_ff(_, _, _, _, _, _)
_parse_hh_mm_ss_ff(tstr, p, p_end, i, has_separator, vals) ==
    LET digits == ParseDigits(tstr, p, 2)
        read == [vals EXCEPT ![i + 1] = digits]
        c == At(tstr, p + 2)
        separated == IF i = 0 THEN c = ":" ELSE has_separator
        more(q) == IF i < 2 THEN _parse_hh_mm_ss_ff(tstr, q, p_end, i + 1, separated, read)
                   ELSE ParseFraction(tstr, q, p_end, read)
    IN IF digits < 0 THEN TimeError
       ELSE IF p + 3 >= p_end
       THEN [rv |-> IF c # "" THEN 1 ELSE 0, hour |-> read[1], minute |-> read[2],
             second |-> read[3], microsecond |-> 0]
       ELSE IF separated /\ c = ":" THEN more(p + 3)
       ELSE IF c \in {".", ","} THEN ParseFraction(tstr, p + 3, p_end, read)
       ELSE IF ~separated THEN more(p + 2)
       ELSE TimeError

\* timezone(offset) for the offset of the given sign and size: UTC when the
\* whole seconds are zero, ValueError when it is a day or more
timezone(negative, seconds, microseconds) ==
    IF seconds >= 86400 THEN Invalid
    ELSE [ok |-> TRUE,
          value |->
              IF seconds = 0 THEN [days |-> 0, seconds |-> 0, microseconds |-> 0]
              ELSE IF ~negative
              THEN [days |-> 0, seconds |-> seconds, microseconds |-> microseconds]
              ELSE IF microseconds > 0
              THEN [days |-> 0 - 1, seconds |-> 86400 - seconds - 1,
                    microseconds |-> 1000000 - microseconds]
              ELSE [days |-> 0 - 1, seconds |-> 86400 - seconds, microseconds |-> 0]]

\* The first index from p on holding one of "Z", "+", "-"; where the text
\* ends when there is none
RECURSIVE TzPos(_, _)
TzPos(tstr, p) ==
    IF At(tstr, p) \in {"Z", "+", "-"} \/ p + 1 >= Len(tstr) THEN
        (IF At(tstr, p) \in {"Z", "+", "-"} THEN p ELSE p + 1)
    ELSE TzPos(tstr, p + 1)

TimeOf(time_comps, tzinfo) ==
    [ok |-> TRUE, hour |-> time_comps.hour, minute |-> time_comps.minute,
     second |-> time_comps.second, microsecond |-> time_comps.microsecond,
     tzinfo |-> tzinfo]

TimeWithOffset(time_comps, tzi) ==
    IF tzi.ok THEN TimeOf(time_comps, Num(tzi.value)) ELSE Invalid

\* The time read as time_comps up to tzinfo_pos and the offset read as
\* tz_comps after it
TimeAndOffset(tstr, tzinfo_pos, time_comps, tz_comps) ==
    IF time_comps.rv < 0 THEN Invalid
    ELSE IF tzinfo_pos = Len(tstr)
    THEN (IF time_comps.rv = 1 THEN Invalid ELSE TimeOf(time_comps, NoneNum))
    ELSE IF At(tstr, tzinfo_pos) = "Z"
    THEN (IF At(tstr, tzinfo_pos + 1) # "" THEN Invalid
          ELSE TimeWithOffset(time_comps, timezone(FALSE, 0, 0)))
    ELSE IF tz_comps.rv # 0 THEN Invalid
    ELSE TimeWithOffset(time_comps,
                        timezone(At(tstr, tzinfo_pos) = "-",
                                 tz_comps.hour * 3600 + tz_comps.minute * 60
                                     + tz_comps.second,
                                 tz_comps.microsecond))

ParseTimeUpTo(tstr, p, tzinfo_pos) ==
    TimeAndOffset(tstr, tzinfo_pos,
                  _parse_hh_mm_ss_ff(tstr, p, tzinfo_pos, 0, TRUE, <<0, 0, 0>>),
                  _parse_hh_mm_ss_ff(tstr, tzinfo_pos + 1, Len(tstr), 0, TRUE, <<0, 0, 0>>))

\* The time of day and the offset written from index p on
_parse_isoformat_time(tstr, p) == ParseTimeUpTo(tstr, p, TzPos(tstr, p))

\* datetime.fromisoformat(date_string): [ok |-> TRUE, value |-> the
\* datetime], or Invalid where it raises ValueError
Combined(date_components, time_components) ==
    IF ~date_components.ok \/ ~time_components.ok THEN Invalid
    ELSE datetime(date_components.year, date_components.month,
                  date_components.day, time_components.hour,
                  time_components.minute, time_components.second,
                  time_components.microsecond, time_components.tzinfo)

Midnight ==
    [ok |-> TRUE, hour |-> 0, minute |-> 0, second |-> 0, microsecond |-> 0,
     tzinfo |-> NoneNum]

\* The date before separator_location and the time after the separator,
\* which is one character, of one byte or more
ParseAround(dt_ptr, separator_location) ==
    IF separator_location < 0 THEN Invalid
    ELSE Combined(_parse_isoformat_date(Slice(dt_ptr, 0, separator_location)),
                  IF Len(dt_ptr) > separator_location
                  THEN _parse_isoformat_time(
                           dt_ptr,
                           separator_location
                               + (IF At(dt_ptr, separator_location) \in AsciiChars
                                  THEN 1 ELSE 2))
                  ELSE Midnight)

ParseBytes(dt_ptr) ==
    IF Len(dt_ptr) < 7 THEN Invalid
    ELSE ParseAround(dt_ptr, _find_isoformat_datetime_separator(dt_ptr))

fromisoformat(date_string) == ParseBytes(Utf8(date_string))

\* '%02d' % n and its wider forms: n in decimal, zero-filled to `width`
RECURSIVE ZeroFilled(_, _)
ZeroFilled(n, width) ==
    IF width <= 1 /\ n < 10 THEN CharAt("0123456789", n + 1)
    ELSE ZeroFilled(n \div 10, width - 1) \o CharAt("0123456789", (n % 10) + 1)

\* The utcoffset as isoformat writes it: +HH:MM[:SS[.ffffff]]
_format_offset(off) ==
    LET microseconds == IF off.days < 0 THEN (1000000 - off.microseconds) % 1000000
                        ELSE off.microseconds
        seconds == IF off.days < 0
                   THEN 86400 - off.seconds - (IF off.microseconds > 0 THEN 1 ELSE 0)
                   ELSE off.seconds
    IN (IF off.days < 0 THEN "-" ELSE "+")
       \o ZeroFilled(seconds \div 3600, 2) \o ":" \o ZeroFilled((seconds % 3600) \div 60, 2)
       \o (IF seconds % 60 # 0 \/ microseconds # 0
           THEN ":" \o ZeroFilled(seconds % 60, 2) ELSE "")
       \o (IF microseconds # 0 THEN "." \o ZeroFilled(microseconds, 6) ELSE "")

\* dt.isoformat()
isoformat(dt) ==
    ZeroFilled(dt.year, 4) \o "-" \o ZeroFilled(dt.month, 2) \o "-" \o ZeroFilled(dt.day, 2)
    \o "T" \o ZeroFilled(dt.hour, 2) \o ":" \o ZeroFilled(dt.minute, 2)
    \o ":" \o ZeroFilled(dt.second, 2)
    \o (IF dt.microsecond # 0 THEN "." \o ZeroFilled(dt.microsecond, 6) ELSE "")
    \o (IF dt.tzinfo # NoneNum THEN _format_offset(dt.tzinfo[1]) ELSE "")

\* dt - timedelta(days=days)
OnDay(dt, ymd) == [dt EXCEPT !.year = ymd[1], !.month = ymd[2], !.day = ymd[3]]

DaysBefore(dt, days) == OnDay(dt, _ord2ymd(_ymd2ord(dt.year, dt.month, dt.day) - days))

\* What the DateTime column keeps of a datetime: the default database,
\* SQLite, stores the text of the fields and drops the utcoffset, and gives
\* a naive value back.
Stored(dt) == [dt EXCEPT !.tzinfo = NoneNum]

RECURSIVE TupleLess(_, _)
TupleLess(a, b) ==
    IF a = <<>> THEN FALSE
    ELSE IF a[1] # b[1] THEN a[1] < b[1]
    ELSE TupleLess(Tail(a), Tail(b))

Fields(dt) == <<dt.year, dt.month, dt.day, dt.hour, dt.minute, dt.second, dt.microsecond>>

\* a < b as the database compares two stored dates
DateLess(a, b) == TupleLess(Fields(a), Fields(b))

\* str.replace(old, new) for a single character `old`
RECURSIVE Replace(_, _, _)
Replace(s, old, new) ==
    IF s = "" THEN ""
    ELSE (IF CharAt(s, 1) = old THEN new ELSE CharAt(s, 1))
         \o Replace(SubSeq(s, 2, Len(s)), old, new)

-----------------------------------------------------------------------------
(* Ingestion: MentionService._create_mention_from_review and its helpers *)

product_keywords ==
    <<"app", "service", "price", "cost", "payment", "billing", "subscription",
      "feature", "update", "interface", "design", "bug", "crash", "slow",
      "fast", "easy", "difficult", "customer service", "support", "help">>

_extract_keywords(content) == Take(Matched(Lower(content), product_keywords), 10)

topic_keywords ==
    << [topic |-> "performance",
        keywords |-> <<"slow", "fast", "lag", "speed", "performance", "quick">>],
       [topic |-> "usability",
        keywords |-> <<"easy", "difficult", "confusing", "simple", "user-friendly", "interface">>],
       [topic |-> "pricing",
        keywords |-> <<"expensive", "cheap", "cost", "price", "money", "billing", "subscription">>],
       [topic |-> "features",
        keywords |-> <<"feature", "function", "capability", "option", "tool">>],
       [topic |-> "bugs",
        keywords |-> <<"bug", "error", "crash", "broken", "glitch", "issue">>],
       [topic |-> "customer_service",
        keywords |-> <<"support", "help", "service", "staff", "team", "representative">>],
       [topic |-> "design",
        keywords |-> <<"design", "look", "appearance", "ui", "layout", "visual">>] >>

RECURSIVE TopicsIn(_, _)
TopicsIn(content_lower, entries) ==
    IF entries = <<>> THEN <<>>
    ELSE (IF ContainsAny(content_lower, entries[1].keywords)
          THEN <<entries[1].topic>> ELSE <<>>)
         \o TopicsIn(content_lower, Tail(entries))

_extract_topics(content) == TopicsIn(Lower(content), topic_keywords)

_get_response_type(intent, sentiment) ==
    IF intent = "complaint" THEN "apology_and_resolution"
    ELSE IF intent = "question" THEN "informational_assistance"
    ELSE IF intent = "recommendation" /\ sentiment = "positive"
         THEN "gratitude_and_engagement"
    ELSE "acknowledgment"

_get_key_response_points(intent, sentiment, priority) ==
    (IF intent = "complaint"
     THEN <<"Acknowledge the issue", "Apologize for the inconvenience",
            "Offer a solution or next steps">>
     ELSE IF intent = "question"
     THEN <<"Provide helpful information", "Offer additional resources",
            "Invite further questions">>
     ELSE IF intent = "recommendation"
     THEN <<"Thank the user for feedback", "Consider implementing suggestion",
            "Keep user updated on progress">>
     ELSE <<>>)
    \o (IF priority = "critical" THEN <<"Escalate to senior support team">> ELSE <<>>)

_generate_response_suggestion(intent, sentiment, priority) ==
    LET intent_type == Get(intent, "intent", "neutral")
        sentiment_type == Get(sentiment, "sentiment_label", "neutral")
    IN [should_respond |-> priority \in {"critical", "high"},
        urgency |-> priority,
        recommended_style |-> IF priority = "critical" THEN "official" ELSE "friendly",
        response_type |-> _get_response_type(intent_type, sentiment_type),
        key_points |-> _get_key_response_points(intent_type, sentiment_type, priority)]

\* a or b for strings: a unless it is None or empty
Or(a, b) == IF a = None \/ a = "" THEN b ELSE a

\* The "date" of a raw review is [type |-> "str", value |-> text],
\* [type |-> "int", value |-> n] for a timestamp, [type |-> "datetime",
\* value |-> a datetime] or NoDate for null.
NoDate == [type |-> "none"]

\* bool(date): None, the empty text and 0 are false
Truthy(date) ==
    CASE date.type = "none" -> FALSE
      [] date.type = "str" -> date.value # ""
      [] date.type = "int" -> date.value # 0
      [] OTHER -> TRUE

\* The date parsing of _create_mention_from_review, `now` being what
\* datetime.now() gives: a text is parsed after 'Z' is replaced by '+00:00',
\* a datetime is kept, and the present time stands in when parsing raises
\* or the date is missing or false; any other value leaves original_date
\* None.
\* the parsed value, or `now` where fromisoformat raised
ParsedOr(parsed, now) == IF parsed.ok THEN Num(parsed.value) ELSE Num(now)

OriginalDate(review_data, now) ==
    LET date == Get(review_data, "date", NoDate)
    IN IF ~Truthy(date) THEN Num(now)
       ELSE IF date.type = "str"
            THEN ParsedOr(fromisoformat(Replace(date.value, "Z", "+00:00")), now)
       ELSE IF date.type = "datetime" THEN Num(date.value)
       ELSE NoneNum

\* A table whose is_marked column defaults to True
UserMentionMarked(fields) ==
    [k \in {"id", "product_id", "platform", "external_id", "content", "title",
            "rating", "sentiment", "intent", "priority", "confidence_score",
            "original_date", "is_processed", "keywords_matched", "topics",
            "response_suggested", "is_marked"} |->
        IF k \in DOMAIN fields THEN fields[k]
        ELSE CASE k \in {"id", "rating", "confidence_score", "original_date",
                         "keywords_matched", "topics"} -> NoneNum
               [] k = "response_suggested" -> NoneDict
               [] k = "is_processed" -> "pending"
               [] k = "is_marked" -> TRUE
               [] OTHER -> None]

\* The columns of a user_mentions row.  A column holding no value is None
\* (NoneNum for a number, a date or a list, NoneDict for a JSON object);
\* numbers, dates and lists are wrapped by Num so that they can be told
\* from None.
UserMention(fields) ==
    [k \in {"id", "product_id", "platform", "external_id", "content", "title",
            "rating", "sentiment", "intent", "priority", "confidence_score",
            "original_date", "is_processed", "keywords_matched", "topics",
            "response_suggested", "is_marked"} |->
        IF k \in DOMAIN fields THEN fields[k]
        ELSE CASE k \in {"id", "rating", "confidence_score", "original_date",
                         "keywords_matched", "topics"} -> NoneNum
               [] k = "response_suggested" -> NoneDict
               [] k = "is_processed" -> "pending"
               [] k = "is_marked" -> FALSE
               [] OTHER -> None]

-----------------------------------------------------------------------------
(* Classification command: commands/classify_mentions.py.  `response` is    *)
(* what model.generate_content() does: raise, or answer with a text.        *)

positive_words ==
    <<"great", "excellent", "love", "amazing", "good", "perfect", "fantastic",
      "recommend", "best", "awesome", "helpful", "professional", "easy",
      "convenient", "satisfied", "happy">>

negative_words ==
    <<"terrible", "awful", "hate", "worst", "bad", "horrible", "annoying",
      "frustrating", "disappointed", "angry", "broken", "crash", "problem",
      "issue", "error", "slow", "expensive", "rude">>

question_indicators ==
    <<"how", "what", "why", "when", "where", "help", "?", "can you",
      "could you", "please help">>

complaint_indicators ==
    <<"problem", "issue", "error", "crash", "broken", "not working", "terrible",
      "awful", "disappointed", "angry", "refund">>

recommendation_indicators ==
    <<"recommend", "love", "great", "excellent", "should try", "amazing", "perfect">>

simple_critical_keywords ==
    <<"crash", "security", "fraud", "illegal", "unsafe", "emergency", "urgent",
      "immediately", "critical", "charged twice", "unauthorized">>

simple_high_keywords ==
    <<"billing", "payment", "refund", "customer service", "support",
      "not working", "broken", "error">>

keyword_candidates ==
    <<"app", "driver", "service", "payment", "billing", "crash", "bug",
      "support", "help", "ride", "booking", "customer service", "refund",
      "rating", "review", "experience", "price", "cost", "fee", "car", "trip",
      "route", "navigation", "location", "pickup", "dropoff", "wait time",
      "fast", "slow", "professional", "rude", "clean", "dirty">>

simple_topics ==
    << [topic |-> "technical_issues",
        keywords |-> <<"crash", "bug", "error", "broken", "slow", "loading", "freeze">>],
       [topic |-> "service_quality",
        keywords |-> <<"driver", "ride", "car", "pickup", "professional", "rude",
                       "clean", "dirty">>],
       [topic |-> "billing",
        keywords |-> <<"payment", "billing", "charge", "money", "cost", "price",
                       "fee", "refund">>],
       [topic |-> "customer_service",
        keywords |-> <<"support", "help", "contact", "customer service", "response">>],
       [topic |-> "user_experience",
        keywords |-> <<"app", "interface", "navigation", "easy", "difficult", "confusing">>],
       [topic |-> "safety",
        keywords |-> <<"safety", "secure", "unsafe", "emergency">>] >>

\* "if rating:" holds for a rating that is neither None nor 0
Rated(rating) == rating # NoneNum /\ rating[1] # 0

SimpleSentiment(content_lower, rating) ==
    LET positive_count == Len(Matched(content_lower, positive_words))
                          + (IF Rated(rating) /\ rating[1] >= 4 THEN 2 ELSE 0)
        negative_count == Len(Matched(content_lower, negative_words))
                          + (IF Rated(rating) /\ rating[1] < 4 /\ rating[1] <= 2
                             THEN 2 ELSE 0)
    IN IF positive_count > negative_count THEN "positive"
       ELSE IF negative_count > positive_count THEN "negative"
       ELSE "neutral"

SimpleIntent(content_lower) ==
    IF ContainsAny(content_lower, question_indicators) THEN "question"
    ELSE IF ContainsAny(content_lower, complaint_indicators) THEN "complaint"
    ELSE IF ContainsAny(content_lower, recommendation_indicators) THEN "recommendation"
    ELSE "neutral"

SimplePriority(content_lower, sentiment) ==
    IF ContainsAny(content_lower, simple_critical_keywords) THEN "critical"
    ELSE IF ContainsAny(content_lower, simple_high_keywords) \/ sentiment = "negative"
    THEN "high"
    ELSE IF sentiment = "positive" THEN "low"
    ELSE "medium"

SimpleTopics(found) == IF found = <<>> THEN <<"general_feedback">> ELSE found

\* confidence += step.by for every step whose condition holds, in order
RECURSIVE Raised(_, _)
Raised(confidence, steps) ==
    IF steps = <<>> THEN confidence
    ELSE Raised(IF steps[1].on THEN FAdd(confidence, steps[1].by) ELSE confidence,
                Tail(steps))

\* 0.6, raised for a clear rating, for more than two sentiment words and for
\* a content of more than 50 characters
SimpleConfidence(content, content_lower, rating) ==
    Raised(Pct60,
           << [on |-> Rated(rating) /\ Abs(rating[1] - 3) > 1, by |-> Pct20],
              [on |-> Len(Matched(content_lower, positive_words \o negative_words)) > 2,
               by |-> Pct10],
              [on |-> Len(content) > 50, by |-> Pct10] >>)

SimpleClassification(content, content_lower, rating, sentiment) ==
    [sentiment |-> sentiment,
     intent |-> SimpleIntent(content_lower),
     priority |-> SimplePriority(content_lower, sentiment),
     confidence_score |-> FMin(Pct95, SimpleConfidence(content, content_lower, rating)),
     keywords_matched |-> Take(Matched(content_lower, keyword_candidates), 7),
     topics |-> Take(SimpleTopics(TopicsIn(content_lower, simple_topics)), 4)]

ClassifyLowered(content, content_lower, rating) ==
    SimpleClassification(content, content_lower, rating,
                         SimpleSentiment(content_lower, rating))

classify_mention_simple(content, platform, rating) ==
    ClassifyLowered(content, Lower(content), rating)

\* re.search(r'\{[^}]*\}', text, re.DOTALL): from the first "{" that has a
\* "}" after it up to the nearest such "}".
BraceMatch(text) ==
    LET start == Find(text, "{")
    IN IF start = 0 - 1 THEN [found |-> FALSE]
       ELSE LET rest == Slice(text, start, Len(text))
                close == Find(rest, "}")
            IN IF close = 0 - 1 THEN [found |-> FALSE]
               ELSE [found |-> TRUE, group |-> Slice(rest, 0, close + 1)]

valid_sentiments == {"positive", "negative", "neutral"}
valid_intents == {"complaint", "question", "recommendation", "neutral"}
valid_priorities == {"critical", "high", "medium", "low"}

\* json.loads of the match, [ok |-> FALSE] where there is no match or the
\* text is no JSON
LoadMatch(json_match) ==
    IF json_match.found THEN JsonLoads(json_match.group) ELSE [ok |-> FALSE]

\* The validated answer, or `simple`, the rule-based classification, where
\* the call raised, the answer cannot be parsed or a field is missing or
\* invalid
ValidatedOr(parsed, simple) ==
    IF /\ parsed.ok
       /\ Get(parsed.value, "sentiment", None) \in valid_sentiments
       /\ Get(parsed.value, "intent", None) \in valid_intents
       /\ Get(parsed.value, "priority", None) \in valid_priorities
       /\ IsNumber(Get(parsed.value, "confidence_score", NoneDict))
    THEN [sentiment |-> parsed.value.sentiment,
          intent |-> parsed.value.intent,
          priority |-> parsed.value.priority,
          confidence_score |-> FMax(Zero, FMin(One, parsed.value.confidence_score)),
          keywords_matched |-> Take(Get(parsed.value, "keywords_matched", <<>>), 7),
          topics |-> Take(Get(parsed.value, "topics", <<>>), 4)]
    ELSE simple

classify_with_gemini(content, platform, rating, response) ==
    ValidatedOr(IF response.raises THEN [ok |-> FALSE]
                ELSE LoadMatch(BraceMatch(Strip(response.text))),
                classify_mention_simple(content, platform, rating))

-----------------------------------------------------------------------------
(* Inputs of the store commands, and the analyses of their texts.  The      *)
(* classifiers are pure functions of their arguments; for the texts the     *)
(* store can hold they are computed once and the commands read the result.  *)

\* What datetime.now() gives.  The clock does not advance over the calls
\* modelled: every reading is this instant.
Now == datetime(2024, 1, 10, 12, 0, 0, 250000, NoneNum).value

\* Raw items as the scrapers hand them over; id, platform, title, rating
\* and date are optional keys.
RawReviews ==
    { [id |-> "a", platform |-> "App Store", title |-> "Bad",
       content |-> "charged twice, app crash", rating |-> 1,
       date |-> [type |-> "str", value |-> "2024-01-05T10:00:00Z"]],
      [id |-> "b", platform |-> "Trustpilot", content |-> "great ride",
       rating |-> 5, date |-> [type |-> "str", value |-> "yesterday"]],
      [content |-> "", date |-> [type |-> "int", value |-> 1700000000]] }

\* A scraped item whose content is null: review_data.get("content", "")
\* gives None.  Its date is 0.
NullContentReview ==
    [id |-> "n", platform |-> "Reddit", content |-> None,
     date |-> [type |-> "int", value |-> 0]]

Products == {1, 2}

MaxStore == 2

StoreTexts == {Get(r, "content", "") : r \in RawReviews}

\* A review that names many product terms; it is ingested by single calls
\* only (IngestReviews), the store commands do not draw it.
WordyReview ==
    [id |-> "w", platform |-> "Reddit",
     content |-> "slow app update, difficult design, billing support no help, price bug",
     date |-> [type |-> "str", value |-> "2024-01-05 10:00:00"]]

\* A review TextBlob scores -0.5 ("sad"), naming no keyword of any list
SadReview ==
    [id |-> "s", platform |-> "Trustpilot", content |-> "a sad ride",
     date |-> [type |-> "datetime",
               value |-> datetime(2024, 1, 5, 10, 0, 0, 0,
                                  Num(timezone(FALSE, 7200, 0).value)).value]]

\* The texts ingestion may classify
IngestTexts == StoreTexts \cup {WordyReview.content, SadReview.content}

\* TextBlob's estimates for the stored texts
StoreBlobs(text) ==
    {b \in BlobsOf(text) : text = "" \/ b.polarity \in {FNeg(Pct50), Pct70}}

\* What crew.kickoff() does while a command runs: raise, a well-formed
\* answer, an answer with confidence -0.5 and polarity -1.7, an answer
\* whose polarity is null.
StoreKickoffs ==
    {[raises |-> TRUE]}
    \cup {[raises |-> FALSE, text |-> JsonObjects[k].text] : k \in {"a", "d", "g"}}

\* What model.generate_content() does while the command runs
GeminiResponses ==
    {[raises |-> TRUE]}
    \cup {[raises |-> FALSE, text |-> t] :
            t \in { "Here you go: " \o GeminiObjects.b.text \o "\n",
                    GeminiObjects.d.text,
                    GeminiObjects.f.text }}

StoreRatings == {NoneNum} \cup {Num(r.rating) : r \in {x \in RawReviews : "rating" \in DOMAIN x}}

StorePlatforms == {Get(r, "platform", "unknown") : r \in RawReviews}
                  \cup {Get(r, "platform", "Unknown") : r \in RawReviews}

\* self.analysis_service.analyze_sentiment(text)
SentimentOf ==
    [text \in IngestTexts |-> [key \in BOOLEAN |-> [blob \in BlobsOf(text) |->
        [kickoff \in StoreKickoffs \cup {NotCalled} |->
            analyze_sentiment(text, key, blob, kickoff)]]]]

SentimentResults(text) ==
    {SentimentOf[text][key][blob][kickoff] :
        key \in BOOLEAN, blob \in BlobsOf(text), kickoff \in StoreKickoffs \cup {NotCalled}}

\* self.analysis_service.classify_intent(content)
IntentOf == [text \in IngestTexts |-> classify_intent(text)]

\* self._determine_priority(sentiment, intent, content)
PriorityOf ==
    [content \in IngestTexts |-> [sentiment \in SentimentResults(content) |->
        _determine_priority(sentiment, IntentOf[content], content)]]

\* self._extract_keywords(content), self._extract_topics(content)
KeywordsOf == [content \in IngestTexts |-> _extract_keywords(content)]
TopicsOf == [content \in IngestTexts |-> _extract_topics(content)]

\* classify_mention_content(content, platform, rating)
ClassificationOf ==
    [content \in StoreTexts |-> [platform \in StorePlatforms |->
        [rating \in StoreRatings |-> [response \in GeminiResponses |->
            classify_with_gemini(content, platform, rating, response)]]]]

\* Without the API key crew.kickoff() is not called.
KickoffChoices(key) == IF key THEN StoreKickoffs ELSE {NotCalled}

\* sentiment = analyze_sentiment(content), uuid4 = str(uuid.uuid4()) and
\* now = datetime.now() are the values the conversion takes from outside.
\* UserMention(...) of the review with its analyses
CreatedMention(review_data, product_id, content, sentiment, intent, priority, uuid4, now) ==
    [product_id |-> product_id,
     platform |-> Get(review_data, "platform", "unknown"),
     external_id |-> Or(Get(review_data, "id", None),
                        Or(Get(review_data, "external_id", None), uuid4)),
     content |-> content,
     title |-> Get(review_data, "title", None),
     rating |-> IF "rating" \in DOMAIN review_data
                THEN Num(review_data.rating) ELSE NoneNum,
     sentiment |-> Get(sentiment, "sentiment_label", "neutral"),
     intent |-> Get(intent, "intent", "neutral"),
     priority |-> priority,
     confidence_score |-> Num(FMin(Get(sentiment, "confidence", Pct50),
                                   Get(intent, "confidence", Pct50))),
     original_date |-> OriginalDate(review_data, now),
     is_processed |-> "processed",
     keywords_matched |-> Num(KeywordsOf[content]),
     topics |-> Num(TopicsOf[content]),
     response_suggested |-> _generate_response_suggestion(intent, sentiment, priority)]

CreateFromContent(review_data, product_id, content, sentiment, uuid4, now) ==
    CreatedMention(review_data, product_id, content, sentiment, IntentOf[content],
                   PriorityOf[content][sentiment], uuid4, now)

_create_mention_from_review(review_data, product_id, sentiment, uuid4, now) ==
    CreateFromContent(review_data, product_id, Get(review_data, "content", ""),
                      sentiment, uuid4, now)

-----------------------------------------------------------------------------
(* The user_mentions table and the sessions that read and write it.         *)
(* `db` is the committed table, a sequence of rows in id order.  A command  *)
(* works through a session of its own, kept in its frame: `loaded` holds,   *)
(* by id, the rows the session has read and not expired, `dirty` the        *)
(* attributes it has set since, `new` the rows it has added.  The session   *)
(* does not autoflush: a query reads the committed table.  A commit inserts *)
(* the added rows, writes the attributes that changed and expires every     *)
(* loaded row; a rollback drops the pending work.  `env` is what a command  *)
(* finds outside: `key` says whether OPENAI_API_KEY is set, `blobs` is      *)
(* TextBlob's estimate per text, `now` the reading of the clock.            *)

\* A session with nothing read and nothing pending
Work(frame) ==
    [k \in DOMAIN frame \cup {"loaded", "dirty", "new"} |->
        IF k \in {"loaded", "dirty", "new"} THEN <<>> ELSE frame[k]]

\* The session reads the rows `ids`; a row it holds unexpired stays as held
Load(session, db, ids) ==
    [session EXCEPT !.loaded =
        [i \in DOMAIN session.loaded \cup ids |->
            IF i \in DOMAIN session.loaded THEN session.loaded[i] ELSE db[i]]]

\* db.refresh(mention): the row is read again
Refresh(session, db, i) ==
    [session EXCEPT !.loaded =
        [j \in DOMAIN session.loaded \cup {i} |->
            IF j = i THEN db[i] ELSE session.loaded[j]]]

\* The attributes of the loaded row i as the session sees them
Attributes(session, i) ==
    [k \in DOMAIN session.loaded[i] |->
        IF i \in DOMAIN session.dirty /\ k \in DOMAIN session.dirty[i]
        THEN session.dirty[i][k] ELSE session.loaded[i][k]]

\* value == loaded, as the column's type compares them
SameValue(k, a, b) ==
    IF k = "confidence_score" /\ a # NoneNum /\ b # NoneNum
    THEN FCmp(a[1], b[1]) = 0
    ELSE a = b

\* mention.k = value.  The unit of work keeps the attribute as changed
\* unless the value equals the one loaded; the attribute of an expired row
\* counts as changed whatever it held.
\* The session's changes with `after` as those of row i
WithChanges(session, i, after) ==
    [session EXCEPT !.dirty =
        [j \in (IF DOMAIN after = {} THEN DOMAIN session.dirty \ {i}
                ELSE DOMAIN session.dirty \cup {i}) |->
            IF j = i THEN after ELSE session.dirty[j]]]

\* The changes `before` of a row with attribute k set to value
Changed(before, k, value, unchanged) ==
    [c \in (IF unchanged THEN DOMAIN before \ {k} ELSE DOMAIN before \cup {k}) |->
        IF c = k THEN value ELSE before[c]]

Set(session, i, k, value) ==
    WithChanges(session, i,
                Changed(IF i \in DOMAIN session.dirty THEN session.dirty[i] ELSE <<>>,
                        k, value,
                        /\ i \in DOMAIN session.loaded
                        /\ SameValue(k, value, session.loaded[i][k])))

\* The entries of `values` that set an attribute to the value loaded
Unchanged(loaded, i, values) ==
    {n \in DOMAIN values :
        /\ i \in DOMAIN loaded
        /\ SameValue(values[n][1], values[n][2], loaded[i][values[n][1]])}

\* The changes `before` of row i with each attribute k of `values` set to
\* its value
ChangedAll(before, values, unchanged) ==
    [c \in (DOMAIN before \cup {values[n][1] : n \in DOMAIN values})
              \ {values[n][1] : n \in unchanged} |->
        IF \E n \in DOMAIN values : values[n][1] = c
        THEN values[CHOOSE n \in DOMAIN values : values[n][1] = c][2]
        ELSE before[c]]

\* mention.k = value for each <<k, value>> of `values`, a list of distinct
\* attributes
SetAll(session, i, values) ==
    WithChanges(session, i,
                ChangedAll(IF i \in DOMAIN session.dirty THEN session.dirty[i] ELSE <<>>,
                           values, Unchanged(session.loaded, i, values)))

\* UPDATE of the attributes that changed, row by row
Update(db, dirty) ==
    [i \in 1..Len(db) |->
        IF i \in DOMAIN dirty
        THEN [k \in DOMAIN db[i] |->
                 IF k \in DOMAIN dirty[i] THEN dirty[i][k] ELSE db[i][k]]
        ELSE db[i]]

\* INSERT of the pending rows: ids continue the sequence, and the DateTime
\* column keeps the date's fields without its offset.
Insert(db, created) ==
    db \o [i \in 1..Len(created) |->
              UserMention([k \in DOMAIN created[i] \cup {"id"} |->
                              CASE k = "id" -> Num(Len(db) + i)
                                [] k = "original_date" /\ created[i][k] # NoneNum
                                     -> Num(Stored(created[i][k][1]))
                                [] OTHER -> created[i][k]])]

\* The columns of user_mentions declared nullable=False that a command
\* fills from a scraped item
NotNull == {"platform", "content"}

\* The INSERT of a row with a null in such a column fails
ViolatesNotNull(created) ==
    \E i \in 1..Len(created) : \E k \in NotNull : created[i][k] = None

\* db.commit(): the flush writes every change of the session in one
\* transaction; an IntegrityError rolls all of it back
Commit(db, session) ==
    [db |-> IF ViolatesNotNull(session.new) THEN db
            ELSE Insert(Update(db, session.dirty), session.new),
     session |-> Work(session)]

\* What a step of a command leaves: the committed table, the command's
\* frame, its position and what it returned
Result(db, frame, at, returned) ==
    [db |-> db, call |-> frame, pc |-> at, ret |-> returned]

\* What a step that ends with a commit leaves
Committed(committed, at, returned) ==
    Result(committed.db, committed.session, at, returned)

\* The rows a session has yet to insert, those of its remaining items included
Pending(frame) ==
    IF frame.op = "parse_and_store_mentions"
    THEN Len(frame.new) + Len(frame.raw_reviews) - frame.i
    ELSE IF frame.op = "_save_collected_data"
    THEN Len(frame.new) + Len(frame.collected_data) - frame.i
    ELSE 0

\* str(uuid.uuid4()): a text no stored or pending row carries
Uuid4(db, frames) ==
    LET used == {m.external_id : m \in Range(db)}
                \cup UNION {{m.external_id : m \in Range(Get(f, "new", <<>>))} :
                               f \in frames}
        n == CHOOSE n \in 1..(Cardinality(used) + 1) :
                 /\ "uuid-" \o ToString(n) \notin used
                 /\ \A m \in 1..(n - 1) : "uuid-" \o ToString(m) \in used
    IN "uuid-" \o ToString(n)

-----------------------------------------------------------------------------
(* MentionService.parse_and_store_mentions *)

CallParseAndStoreMentions(db, raw_reviews, product_id) ==
    Result(db,
           Work([op |-> "parse_and_store_mentions", raw_reviews |-> raw_reviews,
                 product_id |-> product_id, i |-> 0, created_mentions |-> <<>>]),
           IF raw_reviews = <<>> THEN "commit" ELSE "review", NoneDict)

\* _create_mention_from_review raises for this item: content is None, and
\* analyze_sentiment raises on it (TextBlob(None) is a TypeError; with the
\* external result in hand classify_intent's text.lower() is an
\* AttributeError).
CreateMentionRaises(review_data) == Get(review_data, "content", "") = None

\* One pass of the loop: the review is classified, looked up in the
\* committed table and added when no row has its external_id and platform.
\* The loop has no handler: an exception leaves the call, and the rows added
\* so far are never written.
\* db.add(mention) unless a committed row has the mention's external_id
\* and platform; then on to the next review
AddUnlessStored(db, frame, mention) ==
    [frame EXCEPT !.i = @ + 1,
                  !.new = IF \E m \in Range(db) :
                                 /\ m.external_id = mention.external_id
                                 /\ m.platform = mention.platform
                          THEN @ ELSE Append(@, mention)]

ParseNext(db, next) ==
    Result(db, next, IF next.i = Len(next.raw_reviews) THEN "commit" ELSE "review",
           NoneDict)

ParseContent(db, frame, review_data, content, kickoff, uuid4, env) ==
    ParseNext(db,
        AddUnlessStored(db, frame,
            _create_mention_from_review(
                review_data, frame.product_id,
                SentimentOf[content][env.key][env.blobs[content]][kickoff],
                uuid4, env.now)))

ParseReviewData(db, frame, review_data, kickoff, uuid4, env) ==
    IF CreateMentionRaises(review_data)
    THEN Result(db, Work(frame), "done", [raised |-> TRUE, created_mentions |-> <<>>])
    ELSE ParseContent(db, frame, review_data, Get(review_data, "content", ""),
                      kickoff, uuid4, env)

ParseReview(db, frame, kickoff, uuid4, env) ==
    ParseReviewData(db, frame, frame.raw_reviews[frame.i + 1], kickoff, uuid4, env)

\* db.commit(): the created rows take their ids
ParseCommitted(committed, created_mentions) ==
    Result(committed.db,
           [committed.session EXCEPT !.created_mentions = created_mentions, !.i = 0],
           IF created_mentions = <<>> THEN "done" ELSE "refresh",
           IF created_mentions = <<>>
           THEN [raised |-> FALSE, created_mentions |-> <<>>] ELSE NoneDict)

ParseCommit(db, frame) ==
    IF ViolatesNotNull(frame.new)
    THEN Result(db, Work(frame), "done", [raised |-> TRUE, created_mentions |-> <<>>])
    ELSE ParseCommitted(Commit(db, frame), [k \in 1..Len(frame.new) |-> Len(db) + k])

\* db.refresh(mention) for the next created row; after the last the call
\* returns the rows as refreshed
ParseRefreshed(db, next) ==
    IF next.i < Len(next.created_mentions)
    THEN Result(db, next, "refresh", NoneDict)
    ELSE Result(db, next, "done",
                [raised |-> FALSE,
                 created_mentions |->
                     [k \in 1..Len(next.created_mentions) |->
                         next.loaded[next.created_mentions[k]]]])

ParseRefresh(db, frame) ==
    ParseRefreshed(db, [Refresh(frame, db, frame.created_mentions[frame.i + 1])
                           EXCEPT !.i = @ + 1])

-----------------------------------------------------------------------------
(* ParserRunner._save_collected_data *)

CallSaveCollectedData(db, collected_data, product_id) ==
    Result(db,
           Work([op |-> "_save_collected_data", collected_data |-> collected_data,
                 product_id |-> product_id, i |-> 0]),
           IF collected_data = <<>> THEN "commit" ELSE "item", NoneDict)

\* One pass of the loop: an item whose (id, platform) is in the committed
\* table is skipped; item.get('id') of an item without id is None, which
\* equals no stored external_id.
\* UserMention(...) of a collected item
CollectedMention(item, product_id, now) ==
    [product_id |-> product_id,
     platform |-> Get(item, "platform", "Unknown"),
     external_id |-> Get(item, "id", ""),
     content |-> Get(item, "content", ""),
     title |-> Get(item, "title", ""),
     rating |-> IF "rating" \in DOMAIN item THEN Num(item.rating) ELSE NoneNum,
     original_date |-> Num(now),
     is_processed |-> "False",
     sentiment |-> "neutral",
     confidence_score |-> Num(Zero)]

SaveUnlessStored(db, frame, item, env) ==
    [frame EXCEPT !.i = @ + 1,
                  !.new = IF \E m \in Range(db) :
                                 /\ m.external_id = Get(item, "id", None)
                                 /\ m.platform = Get(item, "platform", "Unknown")
                          THEN @
                          ELSE Append(@, CollectedMention(item, frame.product_id,
                                                          env.now))]

SaveNext(db, next) ==
    Result(db, next, IF next.i = Len(next.collected_data) THEN "commit" ELSE "item",
           NoneDict)

SaveItem(db, frame, env) ==
    SaveNext(db, SaveUnlessStored(db, frame, frame.collected_data[frame.i + 1], env))

\* db.commit() stands after the loop, outside its try: the IntegrityError
\* leaves the call and no item of the batch is stored
SaveCommit(db, frame) ==
    Committed(Commit(db, frame), "done",
              IF ViolatesNotNull(frame.new) THEN Raises("IntegrityError") ELSE NoneDict)

-----------------------------------------------------------------------------
(* ParserRunner._process_records_with_openai *)

\* The rows _process_records_with_openai works on.
Unprocessed(db, product_id) ==
    {i \in 1..Len(db) : /\ db[i].product_id = product_id
                        /\ db[i].is_processed = "False"
                        /\ db[i].content # None
                        /\ db[i].content # ""}

\* The batch size of the command's commits
ProcessBatchSize == 10

\* The query: the rows are read when the command starts.
ProcessRows(db, product_id, unprocessed_mentions) ==
    Result(db,
           Load(Work([op |-> "_process_records_with_openai",
                      product_id |-> product_id,
                      unprocessed_mentions |-> unprocessed_mentions,
                      i |-> 0, processed_count |-> 0]),
                db, Range(unprocessed_mentions)),
           IF unprocessed_mentions = <<>> THEN "commit" ELSE "row", NoneDict)

CallProcessRecordsWithOpenai(db, product_id) ==
    ProcessRows(db, product_id,
                SelectInOrder([i \in 1..Len(db) |-> i], Unprocessed(db, product_id)))

\* The next mention is read (again, when a commit expired it) and
\* analyze_sentiment is called on its content
ProcessRead(db, frame) ==
    Result(db, Load(frame, db, {frame.unprocessed_mentions[frame.i + 1]}),
           "analysis", NoneDict)

\* analyze_sentiment has returned: the label is set, then the confidence
\* from abs(polarity), which raises for a polarity that is no number; the
\* handler of the loop's body goes on to the next mention.  Every 10th
\* mention that did not raise is followed by a commit.
\* The mention is counted; every 10th one is followed by a commit
ProcessCounted(db, frame, processed) ==
    IF (frame.i + 1) % ProcessBatchSize = 0
    THEN Commit(db, [processed EXCEPT !.processed_count = @ + 1])
    ELSE [db |-> db, session |-> [processed EXCEPT !.processed_count = @ + 1]]

\* mention.sentiment is set, and where abs(polarity) does not raise the
\* confidence and the mark of a processed row
ProcessLabelled(db, frame, mention, polarity, labelled) ==
    IF ~IsNumber(polarity) THEN [db |-> db, session |-> labelled]
    ELSE ProcessCounted(db, frame,
             SetAll(labelled, mention,
                    << <<"confidence_score", Num(FAbs(polarity))>>,
                       <<"is_processed", "True">> >>))

ProcessNext(after, next) ==
    Result(after.db, next,
           IF next.i = Len(next.unprocessed_mentions) THEN "commit" ELSE "row",
           NoneDict)

ProcessAfter(after) == ProcessNext(after, [after.session EXCEPT !.i = @ + 1])

ProcessResult(db, frame, mention, sentiment_result) ==
    ProcessAfter(
        ProcessLabelled(db, frame, mention, Get(sentiment_result, "polarity", Zero),
                        Set(frame, mention, "sentiment",
                            Get(sentiment_result, "sentiment_label", "neutral"))))

ProcessContent(db, frame, mention, content, kickoff, env) ==
    ProcessResult(db, frame, mention,
                  SentimentOf[content][env.key][env.blobs[content]][kickoff])

ProcessMention(db, frame, mention, kickoff, env) ==
    ProcessContent(db, frame, mention, Attributes(frame, mention).content, kickoff, env)

ProcessWrite(db, frame, kickoff, env) ==
    ProcessMention(db, frame, frame.unprocessed_mentions[frame.i + 1], kickoff, env)

\* The final commit
ProcessCommit(db, frame) == Committed(Commit(db, frame), "done", NoneDict)

-----------------------------------------------------------------------------
(* UnifiedDataProcessor.update_sentiment_classifications *)

\* query.all()[:max_items] of update_sentiment_classifications, as row
\* numbers; max_items = 0 stands for None (both mean no limit).
SentimentQuery(db, filter_type, max_items) ==
    LET rows == SelectInOrder([i \in 1..Len(db) |-> i],
                    {i \in 1..Len(db) :
                        \/ filter_type = "all"
                        \/ filter_type = "neutral" /\ db[i].sentiment = "neutral"
                        \/ filter_type \in {"positive", "misclassified"}
                           /\ db[i].sentiment = "positive"})
    IN IF max_items # 0 THEN Take(rows, max_items) ELSE rows

\* The batch size of the command's commits
UpdateBatchSize == 50

\* The query; without mentions the command returns at once.
UpdateRows(db, filter_type, max_items, rows) ==
    Result(db,
           Load(Work([op |-> "update_sentiment_classifications",
                      filter_type |-> filter_type, max_items |-> max_items,
                      mentions |-> rows, i |-> 0, updated |-> 0]),
                db, Range(rows)),
           IF rows = <<>> THEN "done" ELSE "row", NoneDict)

CallUpdateSentimentClassifications(db, filter_type, max_items) ==
    UpdateRows(db, filter_type, max_items, SentimentQuery(db, filter_type, max_items))

UpdateOn(db, next) ==
    Result(db, next, IF next.i = Len(next.mentions) THEN "commit" ELSE "row", NoneDict)

UpdateAfter(committed) == UpdateOn(committed.db, [committed.session EXCEPT !.i = @ + 1])

\* The end of the loop's body: every 50th mention is followed by a commit
UpdateNext(db, frame) ==
    UpdateAfter(IF (frame.i + 1) % UpdateBatchSize = 0 THEN Commit(db, frame)
                ELSE [db |-> db, session |-> frame])

UpdateTouched(db, touched, content) ==
    IF content # None /\ content # "" /\ Len(Strip(content)) > 5
    THEN Result(db, touched, "analysis", NoneDict)
    ELSE UpdateNext(db, touched)

UpdateLoaded(db, touched) ==
    UpdateTouched(db, touched, Attributes(touched, touched.mentions[touched.i + 1]).content)

\* The next mention is read (again, when a commit expired it); a content of
\* more than 5 characters is analysed, any other is passed over
UpdateRead(db, frame) ==
    UpdateLoaded(db, Load(frame, db, {frame.mentions[frame.i + 1]}))

\* analyze_sentiment has returned: a label other than the mention's is set
\* with abs(polarity) as confidence.  abs raises for a polarity that is no
\* number: the command's handler rolls back and the command returns.
UpdateLabel(db, frame, mention, old_sentiment, new_sentiment, polarity) ==
    IF ~IsNumber(polarity) THEN Result(db, Work(frame), "done", NoneDict)
    ELSE UpdateNext(db,
             IF old_sentiment # new_sentiment
             THEN [SetAll(frame, mention,
                          << <<"sentiment", new_sentiment>>,
                             <<"confidence_score", Num(FAbs(polarity))>> >>)
                      EXCEPT !.updated = @ + 1]
             ELSE frame)

UpdateResult(db, frame, mention, old_sentiment, result) ==
    UpdateLabel(db, frame, mention, old_sentiment,
                Get(result, "sentiment_label", "neutral"),
                Get(result, "polarity", Zero))

UpdateRow(db, frame, mention, row, kickoff, env) ==
    UpdateResult(db, frame, mention, row.sentiment,
                 SentimentOf[row.content][env.key][env.blobs[row.content]][kickoff])

UpdateMention(db, frame, mention, kickoff, env) ==
    UpdateRow(db, frame, mention, Attributes(frame, mention), kickoff, env)

UpdateWrite(db, frame, kickoff, env) ==
    UpdateMention(db, frame, frame.mentions[frame.i + 1], kickoff, env)

\* The final commit
UpdateCommit(db, frame) == Committed(Commit(db, frame), "done", NoneDict)

-----------------------------------------------------------------------------
(* classify_user_mentions: commands/classify_mentions.py *)

\* The rows the command's query selects, as row numbers in id order;
\* product_id = 0 stands for None (both mean no product filter).
ClassifyQuery(db, filter_unprocessed, product_id) ==
    SelectInOrder([i \in 1..Len(db) |-> i],
        {i \in 1..Len(db) :
            /\ product_id # 0 => db[i].product_id = product_id
            /\ filter_unprocessed =>
                   \/ db[i].sentiment = None
                   \/ db[i].intent = None
                   \/ db[i].priority = None
                   \/ db[i].confidence_score = NoneNum})

\* query.offset(offset).limit(batch_size).all(), as row numbers
\* rows[offset : offset + batch_size]
Page(rows, offset, batch_size) ==
    IF offset >= Len(rows) THEN <<>>
    ELSE SubSeq(rows, offset + 1, Min(offset + batch_size, Len(rows)))

BatchPage(db, offset, batch_size, filter_unprocessed, product_id) ==
    Page(ClassifyQuery(db, filter_unprocessed, product_id), offset, batch_size)

\* model.generate_content(prompt) is given no timeout: a call that is never
\* answered does not return.
Hangs == [hangs |-> TRUE]

\* The dictionary the command returns after its loop
ClassifyResult(frame) ==
    [success |-> TRUE,
     total_mentions |-> frame.total_mentions,
     processed |-> frame.processed_count,
     errors |-> frame.error_count,
     message |-> "Successfully classified " \o ToString(frame.processed_count)
                 \o " mentions"]

\* query.count(); nothing to classify returns at once
ClassifyTotal(db, batch_size, filter_unprocessed, product_id, total_mentions) ==
    Result(db,
           Work([op |-> "classify_user_mentions",
                 batch_size |-> batch_size,
                 filter_unprocessed |-> filter_unprocessed,
                 product_id |-> product_id,
                 total_mentions |-> total_mentions,
                 offset |-> 0,
                 batch_mentions |-> <<>>,
                 response |-> NoneDict,
                 processed_count |-> 0,
                 error_count |-> 0]),
           IF total_mentions = 0 THEN "done" ELSE "batch",
           IF total_mentions = 0
           THEN [success |-> TRUE, total_mentions |-> 0, processed |-> 0,
                 errors |-> 0, message |-> "No mentions found to classify"]
           ELSE NoneDict)

CallClassifyUserMentions(db, batch_size, filter_unprocessed, product_id) ==
    ClassifyTotal(db, batch_size, filter_unprocessed, product_id,
                    Len(ClassifyQuery(db, filter_unprocessed, product_id)))

\* while offset < total_mentions: fetch the page; an empty page breaks
ClassifyPage(db, frame, batch_mentions) ==
    IF batch_mentions = <<>>
    THEN Result(db, Work(frame), "done", ClassifyResult(frame))
    ELSE Result(db, [Load(frame, db, Range(batch_mentions))
                        EXCEPT !.batch_mentions = batch_mentions],
                "mention", NoneDict)

ClassifyFetch(db, frame) ==
    ClassifyPage(db, frame,
                 IF frame.offset < frame.total_mentions
                 THEN BatchPage(db, frame.offset, frame.batch_size,
                                frame.filter_unprocessed, frame.product_id)
                 ELSE <<>>)

\* for mention in batch_mentions: the mention is read (again, when a commit
\* expired it); an empty content is skipped, any other is sent to the
\* model.  After the last mention of the page the offset moves on.
ClassifyTouched(db, touched, content, response) ==
    IF content = None \/ Strip(content) = ""
    THEN Result(db, [touched EXCEPT !.batch_mentions = Tail(@)], "mention", NoneDict)
    ELSE Result(db, [touched EXCEPT !.response = response], "waiting", NoneDict)

ClassifyLoaded(db, touched, response) ==
    ClassifyTouched(db, touched,
                    Attributes(touched, Head(touched.batch_mentions)).content, response)

ClassifyNext(db, frame, response) ==
    IF frame.batch_mentions = <<>>
    THEN Result(db, [frame EXCEPT !.offset = @ + frame.batch_size], "batch", NoneDict)
    ELSE ClassifyLoaded(db, Load(frame, db, {Head(frame.batch_mentions)}), response)

\* ", ".join(words[:n]) if words else "none": join raises TypeError for an
\* item that is no text
JoinRaises(words, n) == \E k \in 1..Min(n, Len(words)) : words[k] = None

\* generate_content has returned or raised: the mention takes the
\* classification (of the answer or of the fallback) and is committed.  The
\* summary printed after the commit joins the first keywords and topics; when
\* that raises the loop's handler takes over.
\* processed_count += 1 and the summary: where the join raises the
\* handler is next, otherwise the next mention
ClassifySummed(committed, raised) ==
    Result(committed.db,
           [committed.session EXCEPT !.response = NoneDict,
                                     !.processed_count = @ + 1,
                                     !.batch_mentions = IF raised THEN @ ELSE Tail(@)],
           IF raised THEN "failed" ELSE "mention", NoneDict)

ClassifyStore(db, frame, mention, classification) ==
    ClassifySummed(
        Commit(db,
               SetAll(frame, mention,
                      << <<"sentiment", classification.sentiment>>,
                         <<"intent", classification.intent>>,
                         <<"priority", classification.priority>>,
                         <<"confidence_score", Num(classification.confidence_score)>>,
                         <<"keywords_matched", Num(classification.keywords_matched)>>,
                         <<"topics", Num(classification.topics)>>,
                         <<"is_processed", "processed">> >>)),
        \/ JoinRaises(classification.keywords_matched, 3)
        \/ JoinRaises(classification.topics, 2))

ClassifyRow(db, frame, mention, row) ==
    ClassifyStore(db, frame, mention,
                  ClassificationOf[row.content][Or(row.platform, "Unknown")]
                                  [row.rating][frame.response])

ClassifyCommit(db, frame) ==
    ClassifyRow(db, frame, Head(frame.batch_mentions),
                Attributes(frame, Head(frame.batch_mentions)))

\* except Exception: the error is counted and the mention is committed as
\* failed
ClassifyDropped(committed) ==
    Result(committed.db, [committed.session EXCEPT !.batch_mentions = Tail(@)],
           "mention", NoneDict)

ClassifyFailed(db, frame) ==
    ClassifyDropped(Commit(db, Set([frame EXCEPT !.error_count = @ + 1],
                                   Head(frame.batch_mentions), "is_processed",
                                   "failed")))

-----------------------------------------------------------------------------
(* A command run with no other session at work: its steps one after the     *)
(* other, from the result of its call to its return.  `outside` gives, for  *)
(* the item or the row a step works on, what the outside answers.           *)

\* The item (by position) or the row (by id) the next step works on
Current(frame) ==
    CASE frame.op \in {"parse_and_store_mentions", "_save_collected_data"}
             -> frame.i + 1
      [] frame.op = "_process_records_with_openai"
             -> IF frame.i < Len(frame.unprocessed_mentions)
                THEN frame.unprocessed_mentions[frame.i + 1] ELSE 0
      [] frame.op = "update_sentiment_classifications"
             -> IF frame.i < Len(frame.mentions) THEN frame.mentions[frame.i + 1] ELSE 0
      [] frame.op = "classify_user_mentions"
             -> IF frame.batch_mentions # <<>> THEN Head(frame.batch_mentions) ELSE 0

Step(db, frame, at, answer, env) ==
    CASE frame.op = "parse_and_store_mentions" ->
             (CASE at = "review" -> ParseReview(db, frame, answer,
                                                Uuid4(db, {frame}), env)
                [] at = "commit" -> ParseCommit(db, frame)
                [] at = "refresh" -> ParseRefresh(db, frame))
      [] frame.op = "_save_collected_data" ->
             (CASE at = "item" -> SaveItem(db, frame, env)
                [] at = "commit" -> SaveCommit(db, frame))
      [] frame.op = "_process_records_with_openai" ->
             (CASE at = "row" -> ProcessRead(db, frame)
                [] at = "analysis" -> ProcessWrite(db, frame, answer, env)
                [] at = "commit" -> ProcessCommit(db, frame))
      [] frame.op = "update_sentiment_classifications" ->
             (CASE at = "row" -> UpdateRead(db, frame)
                [] at = "analysis" -> UpdateWrite(db, frame, answer, env)
                [] at = "commit" -> UpdateCommit(db, frame))
      [] frame.op = "classify_user_mentions" ->
             (CASE at = "batch" -> ClassifyFetch(db, frame)
                [] at = "mention" -> ClassifyNext(db, frame, answer)
                [] at = "waiting" -> ClassifyCommit(db, frame)
                [] at = "failed" -> ClassifyFailed(db, frame))

RECURSIVE RunAlone(_, _, _)
RunAlone(called, outside, env) ==
    IF called.pc = "done" THEN called
    ELSE RunAlone(Step(called.db, called.call, called.pc,
                       Get(outside, Current(called.call), NotCalled), env),
                  outside, env)

\* kickoffs is indexed by item: one entry for each review
parse_and_store_mentions(db, raw_reviews, product_id, key, blobs, kickoffs) ==
    RunAlone(CallParseAndStoreMentions(db, raw_reviews, product_id), kickoffs,
             [key |-> key, blobs |-> blobs, now |-> Now])

_save_collected_data(db, collected_data, product_id) ==
    RunAlone(CallSaveCollectedData(db, collected_data, product_id), <<>>,
             [key |-> FALSE, blobs |-> <<>>, now |-> Now]).db

\* kickoffs is indexed by row here, one entry for each row worked on.
update_sentiment_classifications(db, filter_type, max_items, key, blobs, kickoffs) ==
    RunAlone(CallUpdateSentimentClassifications(db, filter_type, max_items),
             kickoffs, [key |-> key, blobs |-> blobs, now |-> Now]).db

\* responses is indexed by row, one entry for each row the query selects
classify_user_mentions(db, batch_size, filter_unprocessed, product_id, responses) ==
    RunAlone(CallClassifyUserMentions(db, batch_size, filter_unprocessed, product_id),
             responses, [key |-> FALSE, blobs |-> <<>>, now |-> Now]).db

-----------------------------------------------------------------------------
(* The mention store under the commands that write it.  Every command runs  *)
(* in a session of its own, a step at a time; the steps of the sessions     *)
(* interleave.  `call` holds the frame of each session, `pc` its position   *)
(* and `ret` what its command returned.                                     *)

Shell == [op |-> "shell"]

\* Every command opens a session of its own (SessionLocal()) and closes it
\* when it returns: a session runs one command.  The names of the sessions,
\* in the order in which they are taken
SessionOrder == <<"s1", "s2", "s3">>

\* The commands at work at a time
MaxConcurrent == 2

Sessions == Range(SessionOrder)

\* A command that starts takes the first session at rest
Free(s) ==
    /\ pc[s] = "idle"
    /\ Cardinality({k \in DOMAIN pc : pc[k] \notin {"idle", "closed"}}) < MaxConcurrent
    /\ \A k \in 1..Len(SessionOrder) :
           (SessionOrder[k] \in DOMAIN pc /\ pc[SessionOrder[k]] = "idle")
               => \E j \in 1..k : SessionOrder[j] = s

TheEnv == [key |-> env_openai, blobs |-> textblob, now |-> Now]

\* The step of session s leaves `result`
Leaves(s, result) ==
    /\ mentions' = result.db
    /\ call' = [call EXCEPT ![s] = result.call]
    /\ pc' = [pc EXCEPT ![s] = result.pc]
    /\ ret' = [ret EXCEPT ![s] = result.ret]
    /\ UNCHANGED <<env_openai, textblob, analyses, running, products>>

\* Session s is at `at` in command `op`
Stands(s, op, at) == pc[s] = at /\ call[s].op = op

\* The rows stored and those the sessions at work may yet store
Room == MaxStore - Len(mentions) - SumSeq([k \in 1..Len(SessionOrder) |->
            IF SessionOrder[k] \in DOMAIN call
            THEN Pending(call[SessionOrder[k]]) ELSE 0])

\* What the commands are started with
\* Each review alone, and the review with id "b" twice in one batch
StoreBatches ==
    {<<r>> : r \in RawReviews}
    \cup {<<r, r>> : r \in {x \in RawReviews : Get(x, "id", None) = "b"}}

\* The batches of the collecting command: those, and the review with id "a"
\* followed by the item whose content is null
CollectedBatches ==
    StoreBatches
    \cup {<<r, NullContentReview>> : r \in {x \in RawReviews : Get(x, "id", None) = "a"}}

StoreProducts == {1}

StoreFilters == {"all", "misclassified"}

\* max_items; 0 stands for None (no limit)
StoreLimits == {0}

StoreBatchSizes == {1}

\* product_id; 0 stands for None (no product filter), 2 has no mention
StoreProductFilters == {0, 2}

\* TextBlob's estimate of each stored text
StoreEstimates ==
    [t \in StoreTexts |-> CHOOSE b \in StoreBlobs(t) : t = "" \/ b.polarity = Pct70]

InitStore ==
    /\ analyses = <<>>
    /\ running = <<>>
    /\ products = StoredProducts
    /\ mentions = <<>>
    /\ env_openai \in BOOLEAN
    /\ textblob = StoreEstimates
    /\ call = [s \in Sessions |-> Shell]
    /\ pc = [s \in Sessions |-> "idle"]
    /\ ret = [s \in Sessions |-> NoneDict]

ParseAndStoreMentions ==
    \E s \in DOMAIN pc, raw_reviews \in StoreBatches, product_id \in StoreProducts :
        /\ Free(s)
        /\ Len(raw_reviews) <= Room
        /\ Leaves(s, CallParseAndStoreMentions(mentions, raw_reviews, product_id))

ParseAndStoreReview ==
    \E s \in DOMAIN pc :
        /\ Stands(s, "parse_and_store_mentions", "review")
        /\ \E kickoff \in KickoffChoices(env_openai) :
               Leaves(s, ParseReview(mentions, call[s], kickoff,
                                     Uuid4(mentions, {call[k] : k \in DOMAIN call}), TheEnv))

ParseAndStoreCommit ==
    \E s \in DOMAIN pc :
        /\ Stands(s, "parse_and_store_mentions", "commit")
        /\ Leaves(s, ParseCommit(mentions, call[s]))

ParseAndStoreRefresh ==
    \E s \in DOMAIN pc :
        /\ Stands(s, "parse_and_store_mentions", "refresh")
        /\ Leaves(s, ParseRefresh(mentions, call[s]))

SaveCollectedData ==
    \E s \in DOMAIN pc, collected_data \in CollectedBatches, product_id \in StoreProducts :
        /\ Free(s)
        /\ Len(collected_data) <= Room
        /\ Leaves(s, CallSaveCollectedData(mentions, collected_data, product_id))

SaveCollectedItem ==
    \E s \in DOMAIN pc :
        /\ Stands(s, "_save_collected_data", "item")
        /\ Leaves(s, SaveItem(mentions, call[s], TheEnv))

SaveCollectedCommit ==
    \E s \in DOMAIN pc :
        /\ Stands(s, "_save_collected_data", "commit")
        /\ Leaves(s, SaveCommit(mentions, call[s]))

ProcessRecordsWithOpenai ==
    \E s \in DOMAIN pc, product_id \in Products :
        /\ Free(s)
        /\ Leaves(s, CallProcessRecordsWithOpenai(mentions, product_id))

ProcessRecordsRead ==
    \E s \in DOMAIN pc :
        /\ Stands(s, "_process_records_with_openai", "row")
        /\ Leaves(s, ProcessRead(mentions, call[s]))

ProcessRecordsWrite ==
    \E s \in DOMAIN pc :
        /\ Stands(s, "_process_records_with_openai", "analysis")
        /\ \E kickoff \in KickoffChoices(env_openai) :
               Leaves(s, ProcessWrite(mentions, call[s], kickoff, TheEnv))

ProcessRecordsCommit ==
    \E s \in DOMAIN pc :
        /\ Stands(s, "_process_records_with_openai", "commit")
        /\ Leaves(s, ProcessCommit(mentions, call[s]))

UpdateSentimentClassifications ==
    \E s \in DOMAIN pc, filter_type \in StoreFilters, max_items \in StoreLimits :
        /\ Free(s)
        /\ Leaves(s, CallUpdateSentimentClassifications(mentions, filter_type,
                                                        max_items))

UpdateSentimentRead ==
    \E s \in DOMAIN pc :
        /\ Stands(s, "update_sentiment_classifications", "row")
        /\ Leaves(s, UpdateRead(mentions, call[s]))

UpdateSentimentWrite ==
    \E s \in DOMAIN pc :
        /\ Stands(s, "update_sentiment_classifications", "analysis")
        /\ \E kickoff \in KickoffChoices(env_openai) :
               Leaves(s, UpdateWrite(mentions, call[s], kickoff, TheEnv))

UpdateSentimentCommit ==
    \E s \in DOMAIN pc :
        /\ Stands(s, "update_sentiment_classifications", "commit")
        /\ Leaves(s, UpdateCommit(mentions, call[s]))

ClassifyStart ==
    \E s \in DOMAIN pc, batch_size \in StoreBatchSizes, filter_unprocessed \in BOOLEAN,
       product_id \in StoreProductFilters :
        /\ Free(s)
        /\ Leaves(s, CallClassifyUserMentions(mentions, batch_size,
                                              filter_unprocessed, product_id))

ClassifyUserMentionsFetch ==
    \E s \in DOMAIN pc :
        /\ Stands(s, "classify_user_mentions", "batch")
        /\ Leaves(s, ClassifyFetch(mentions, call[s]))

\* The next mention of the page: generate_content is called and does not
\* answer, or it returns or raises
ClassifyUserMentionsNext ==
    \E s \in DOMAIN pc :
        /\ Stands(s, "classify_user_mentions", "mention")
        /\ \/ Leaves(s, ClassifyNext(mentions, call[s], Hangs))
           \/ \E response \in GeminiResponses :
                  Leaves(s, ClassifyNext(mentions, call[s], response))

ClassifyUserMentionsCommit ==
    \E s \in DOMAIN pc :
        /\ Stands(s, "classify_user_mentions", "waiting")
        /\ call[s].response # Hangs
        /\ Leaves(s, ClassifyCommit(mentions, call[s]))

ClassifyUserMentionsFailed ==
    \E s \in DOMAIN pc :
        /\ Stands(s, "classify_user_mentions", "failed")
        /\ Leaves(s, ClassifyFailed(mentions, call[s]))

\* The command has returned and its session is closed (db.close()).
Return ==
    \E s \in DOMAIN pc :
        /\ pc[s] = "done"
        /\ Leaves(s, Result(mentions, Shell, "closed", NoneDict))

NextClassify ==
    \/ ClassifyStart
    \/ ClassifyUserMentionsFetch
    \/ ClassifyUserMentionsNext
    \/ ClassifyUserMentionsCommit
    \/ ClassifyUserMentionsFailed
    \/ Return

NextStore ==
    \/ ParseAndStoreMentions
    \/ ParseAndStoreReview
    \/ ParseAndStoreCommit
    \/ ParseAndStoreRefresh
    \/ SaveCollectedData
    \/ SaveCollectedItem
    \/ SaveCollectedCommit
    \/ ProcessRecordsWithOpenai
    \/ ProcessRecordsRead
    \/ ProcessRecordsWrite
    \/ ProcessRecordsCommit
    \/ UpdateSentimentClassifications
    \/ UpdateSentimentRead
    \/ UpdateSentimentWrite
    \/ UpdateSentimentCommit
    \/ NextClassify

SpecStore == InitStore /\ [][NextStore]_vars

-----------------------------------------------------------------------------
(* classify_user_mentions run on its own, on a table that one collection    *)
(* left, as a process that takes every step it can take.                    *)

\* The table when the command starts: what _save_collected_data left of one
\* collection on an empty table.
RunTables ==
    {_save_collected_data(<<>>, collected_data, product_id) :
        collected_data \in SeqsUpTo(RawReviews, MaxStore), product_id \in Products}

InitRun ==
    /\ analyses = <<>>
    /\ running = <<>>
    /\ products = StoredProducts
    /\ mentions \in RunTables
    /\ env_openai = FALSE
    /\ textblob = <<>>
    /\ call = [s \in {"s1"} |-> Shell]
    /\ pc = [s \in {"s1"} |-> "idle"]
    /\ ret = [s \in {"s1"} |-> NoneDict]

NextRun == NextClassify

\* The command is a process of its own: a step it can take is taken.
SpecRun == InitRun /\ [][NextRun]_vars /\ WF_vars(NextRun)

-----------------------------------------------------------------------------
(* The dashboard's score with its change from the previous period; `now`    *)
(* is datetime.now() of the request.                                        *)

\* round(x, 1)
RoundTenths(x) == FRound(x, 10)

\* str(n) for a natural number n
RECURSIVE Decimal(_)
Decimal(n) ==
    IF n < 10 THEN CharAt("0123456789", n + 1)
    ELSE Decimal(n \div 10) \o CharAt("0123456789", (n % 10) + 1)

\* f"{x:.1f}"
Format(x) ==
    (IF x.neg THEN "-" ELSE "")
    \o Decimal(Abs(RoundUnits(x, 10)) \div 10)
    \o "." \o Decimal(Abs(RoundUnits(x, 10)) % 10)

\* f"{x:+.1f}"
FormatSigned(x) == (IF x.neg THEN "" ELSE "+") \o Format(x)

\* query.filter(...).all() of the two periods; product_id = 0 stands for
\* None (both mean no product filter).  A row without date is in neither:
\* a comparison with NULL selects nothing.
PeriodMentions(db, product_id, first, last, last_included) ==
    SelectInOrder(db,
        {m \in Range(db) :
            /\ product_id # 0 => m.product_id = product_id
            /\ m.original_date # NoneNum
            /\ ~DateLess(m.original_date[1], first)
            /\ IF last_included THEN ~DateLess(last, m.original_date[1])
               ELSE DateLess(m.original_date[1], last)})

\* The rows of the current period
CurrentMentions(db, product_id, days_back, now) ==
    PeriodMentions(db, product_id, DaysBefore(now, days_back), now, TRUE)

\* The rows of the previous period
PreviousMentions(db, product_id, days_back, now) ==
    PeriodMentions(db, product_id, DaysBefore(now, 2 * days_back),
                   DaysBefore(now, days_back), FALSE)

\* ((current_score - previous_score) / previous_score) * 100
PercentageChange(current_score, previous_score) ==
    FMul(FDiv(FSub(current_score, previous_score), previous_score), Num100)

_get_score_interpretation(score) ==
    IF ~FLess(score, Num80)
    THEN [status |-> "excellent", description |-> "Strong positive reputation",
          action |-> "maintain current practices"]
    ELSE IF ~FLess(score, Num60)
    THEN [status |-> "good",
          description |-> "Generally positive with improvement opportunities",
          action |-> "address moderate issues"]
    ELSE IF ~FLess(score, Num40)
    THEN [status |-> "concerning",
          description |-> "Mixed reputation with notable issues",
          action |-> "immediate improvement plan needed"]
    ELSE [status |-> "critical", description |-> "Significant reputation damage",
          action |-> "urgent intervention required"]

\* The result computed from the rows the two queries gave
ScoreWithChange(current_mentions, previous_mentions, days_back, now) ==
    LET current_period_start == DaysBefore(now, days_back)
        previous_period_start == DaysBefore(current_period_start, days_back)
        current_score == _calculate_reputation_score(current_mentions)
        previous_score == _calculate_reputation_score(previous_mentions)
        changed == FLess(Zero, previous_score)
        percentage_change == IF changed
                             THEN PercentageChange(current_score, previous_score)
                             ELSE Zero
        change_direction ==
            IF ~changed THEN "no_change"
            ELSE IF FLess(Zero, percentage_change) THEN "increase"
            ELSE IF FLess(percentage_change, Zero) THEN "decrease"
            ELSE "no_change"
    IN [current_score |-> RoundTenths(current_score),
        previous_score |-> RoundTenths(previous_score),
        percentage_change |-> RoundTenths(percentage_change),
        change_direction |-> change_direction,
        change_description |-> (IF FLess(Zero, percentage_change) THEN "+" ELSE "")
                               \o Format(percentage_change) \o "% from last period",
        score_interpretation |-> _get_score_interpretation(current_score),
        current_period |-> [start |-> isoformat(current_period_start),
                            end |-> isoformat(now),
                            mentions_count |-> Len(current_mentions)],
        previous_period |-> [start |-> isoformat(previous_period_start),
                             end |-> isoformat(current_period_start),
                             mentions_count |-> Len(previous_mentions)]]

\* The request with no other session writing between its two queries
_get_reputation_score_with_change(db, product_id, days_back, now) ==
    ScoreWithChange(CurrentMentions(db, product_id, days_back, now),
                    PreviousMentions(db, product_id, days_back, now),
                    days_back, now)

\* Classified rows of product 1 dated one or two days back to the
\* microsecond, and one without date.  A confidence of 1/300 is what the
\* sentiment commands store for a nearly neutral polarity, a negative one
\* what ingestion stores from an external answer.
DatedMentions ==
    {UserMention([product_id |-> 1, platform |-> "App Store", content |-> "great ride",
                  sentiment |-> s, priority |-> pi[1], intent |-> pi[2],
                  confidence_score |-> c,
                  original_date |-> Num(DaysBefore(Now, age)),
                  is_processed |-> "processed"]) :
        s \in SentimentLabels,
        pi \in {<<"critical", "complaint">>, <<"low", "neutral_mention">>},
        c \in {Num(Num1_300), Num(One), Num(FNeg(Pct50))},
        age \in 1..2}
    \cup {UserMention([product_id |-> 1, platform |-> "App Store",
                       content |-> "great ride", sentiment |-> "negative",
                       priority |-> "critical", intent |-> "complaint",
                       confidence_score |-> Num(One), is_processed |-> "processed"])}

MaxDated == 2

GetReputationScoreWithChange ==
    /\ call.op = "_get_reputation_score_with_change"
    /\ pc = "pending"
    /\ pc' = "done"
    /\ ret' = _get_reputation_score_with_change(mentions, call.product_id,
                                                call.days_back, Now)
    /\ UNCHANGED <<call, mentions, env_openai, textblob, analyses, running, products>>

InitChange ==
    /\ analyses = <<>>
    /\ running = <<>>
    /\ products = StoredProducts
    /\ mentions \in SeqsUpTo(DatedMentions, MaxDated)
    /\ call \in {[op |-> "_get_reputation_score_with_change",
                  product_id |-> product_id, days_back |-> days_back] :
                    product_id \in {0, 2}, days_back \in 1..2}
    /\ pc = "pending"
    /\ ret = None
    /\ env_openai = FALSE
    /\ textblob = <<>>

NextChange == GetReputationScoreWithChange

SpecChange == InitChange /\ [][NextChange]_vars

-----------------------------------------------------------------------------
(* The topic trend: the change of a topic's mention count between two       *)
(* periods, in percent.                                                     *)

\* ((current_mentions - previous_mentions) / previous_mentions) * 100
RawPercentage(current_mentions, previous_mentions) ==
    FMul(F(current_mentions - previous_mentions, previous_mentions), Num100)

\* The trend without the cap at +500.
CalculateRealisticTrendNoMaximum(current_mentions, previous_mentions) ==
    IF previous_mentions = 0
    THEN (IF current_mentions > 0 THEN Num100 ELSE Zero)
    ELSE IF current_mentions = 0 THEN FNeg(Num100)
    ELSE LET raw_percentage == RawPercentage(current_mentions, previous_mentions)
         IN RoundTenths(
                IF previous_mentions <= 3
                THEN IF current_mentions > previous_mentions * 3
                     THEN FMin(Num300, raw_percentage)
                     ELSE IF FLess(F(current_mentions, 1), F(previous_mentions, 3))
                     THEN FMax(FNeg(Num75), raw_percentage)
                     ELSE raw_percentage
                ELSE FMax(FNeg(Num100), raw_percentage))

\* The trend without the small-sample cap at +300.
CalculateRealisticTrendNoSmallCap(current_mentions, previous_mentions) ==
    IF previous_mentions = 0
    THEN (IF current_mentions > 0 THEN Num100 ELSE Zero)
    ELSE IF current_mentions = 0 THEN FNeg(Num100)
    ELSE LET raw_percentage == RawPercentage(current_mentions, previous_mentions)
         IN RoundTenths(
                IF previous_mentions <= 3
                THEN IF FLess(F(current_mentions, 1), F(previous_mentions, 3))
                     THEN FMax(FNeg(Num75), raw_percentage)
                     ELSE raw_percentage
                ELSE FMax(FNeg(Num100), FMin(Num500, raw_percentage)))

_calculate_realistic_trend(current_mentions, previous_mentions) ==
    IF previous_mentions = 0
    THEN (IF current_mentions > 0 THEN Num100 ELSE Zero)
    ELSE IF current_mentions = 0 THEN FNeg(Num100)
    ELSE LET raw_percentage == RawPercentage(current_mentions, previous_mentions)
             MAX_POSITIVE_TREND == Num500
             MAX_NEGATIVE_TREND == FNeg(Num100)
             trend_percentage ==
                 IF previous_mentions <= 3
                 THEN IF current_mentions > previous_mentions * 3
                      THEN FMin(Num300, raw_percentage)
                      ELSE IF FLess(F(current_mentions, 1), F(previous_mentions, 3))
                      THEN FMax(FNeg(Num75), raw_percentage)
                      ELSE raw_percentage
                 ELSE FMax(MAX_NEGATIVE_TREND, FMin(MAX_POSITIVE_TREND, raw_percentage))
         IN RoundTenths(trend_percentage)

MaxCount == 30

CalculateRealisticTrend ==
    /\ call.op = "_calculate_realistic_trend"
    /\ pc = "pending"
    /\ pc' = "done"
    /\ ret' = _calculate_realistic_trend(call.current_mentions, call.previous_mentions)
    /\ UNCHANGED <<call, mentions, env_openai, textblob, analyses, running, products>>

InitTrend ==
    InitCall({[op |-> "_calculate_realistic_trend",
               current_mentions |-> c, previous_mentions |-> p] :
                 c \in 0..MaxCount, p \in 0..MaxCount})

NextTrend == CalculateRealisticTrend

SpecTrend == InitTrend /\ [][NextTrend]_vars

-----------------------------------------------------------------------------
(* The detailed topic analysis of the analytics endpoint.                   *)

topic_categories ==
    << [topic |-> "Performance",
        keywords |-> <<"performance", "speed", "slow", "fast", "loading", "lag",
                       "optimization">>],
       [topic |-> "Features",
        keywords |-> <<"features", "functionality", "feature", "capability",
                       "missing", "request">>],
       [topic |-> "Customer Support",
        keywords |-> <<"support", "customer service", "help", "assistance",
                       "response">>],
       [topic |-> "Pricing",
        keywords |-> <<"price", "cost", "expensive", "cheap", "pricing", "fee",
                       "billing">>],
       [topic |-> "User Interface",
        keywords |-> <<"ui", "ux", "interface", "design", "usability",
                       "navigation">>],
       [topic |-> "Bugs & Issues",
        keywords |-> <<"bug", "error", "crash", "broken", "issue", "problem",
                       "glitch">>],
       [topic |-> "Security",
        keywords |-> <<"security", "privacy", "safe", "secure", "protection",
                       "data">>],
       [topic |-> "Payment System",
        keywords |-> <<"payment", "billing", "charge", "card", "transaction",
                       "refund">>],
       [topic |-> "Driver Quality",
        keywords |-> <<"driver", "service quality", "ride", "professional",
                       "behavior">>],
       [topic |-> "App Reliability",
        keywords |-> <<"reliable", "stability", "consistent", "available",
                       "uptime">>] >>

\* any(keyword in content_lower for keyword in keywords), per stored text
\* and topic category
ContentMatches ==
    [content \in StoreTexts |-> [i \in 1..Len(topic_categories) |->
        ContainsAny(Lower(content), topic_categories[i].keywords)]]

\* The test that puts a mention under a topic: a keyword in its content,
\* among its topics or among its matched keywords.
TopicMatches(mention, i) ==
    LET keywords == Range(topic_categories[i].keywords)
        topics == IF mention.topics = NoneNum THEN <<>> ELSE mention.topics[1]
        keywords_matched == IF mention.keywords_matched = NoneNum THEN <<>>
                            ELSE mention.keywords_matched[1]
    IN \/ ContentMatches[IF mention.content = None THEN "" ELSE mention.content][i]
       \/ keywords \cap Range(topics) # {}
       \/ keywords \cap Range(keywords_matched) # {}

_calculate_topic_priority(sentiment_score, trend_percentage, mention_count) ==
    (IF FLess(sentiment_score, FNeg(Num20)) THEN 3
     ELSE IF FLess(sentiment_score, Zero) THEN 1 ELSE 0)
    + (IF FLess(trend_percentage, FNeg(Num20)) THEN 2
       ELSE IF FLess(Num50, trend_percentage) THEN 1 ELSE 0)
    + (IF mention_count > 20 THEN 2
       ELSE IF mention_count > 10 THEN 1 ELSE 0)

\* sentiment_scores has the keys positive, negative and neutral:
\* sentiment_scores[sentiment] += 1 raises KeyError for any other label of a
\* current mention of the topic
TopicRaises(i, current_mentions) ==
    \E k \in 1..Len(current_mentions) :
        /\ TopicMatches(current_mentions[k], i)
        /\ Or(current_mentions[k].sentiment, "neutral") \notin SentimentLabels

\* The entry of one topic category, before the test that skips it
TopicEntry(i, current_mentions, previous_mentions) ==
    IF TopicRaises(i, current_mentions) THEN Raises("KeyError") ELSE
    LET current_topic_mentions ==
            SelectInOrder(current_mentions,
                          {m \in Range(current_mentions) : TopicMatches(m, i)})
        previous_topic_mentions ==
            SelectInOrder(previous_mentions,
                          {m \in Range(previous_mentions) : TopicMatches(m, i)})
        Count(label) ==
            Cardinality({k \in 1..Len(current_topic_mentions) :
                Or(current_topic_mentions[k].sentiment, "neutral") = label})
        total_current == Len(current_topic_mentions)
        total_previous == Len(previous_topic_mentions)
        positive_pct == FMul(F(Count("positive"), total_current), Num100)
        negative_pct == FMul(F(Count("negative"), total_current), Num100)
        sentiment_score == IF total_current > 0
                           THEN FSub(positive_pct, negative_pct)
                           ELSE Zero
        trend_percentage == _calculate_realistic_trend(total_current, total_previous)
    IN [topic |-> topic_categories[i].topic,
        mentions |-> total_current,
        sentiment |-> FormatSigned(sentiment_score) \o "%",
        sentiment_raw |-> sentiment_score,
        trend |-> FormatSigned(trend_percentage) \o "%",
        trend_raw |-> trend_percentage,
        sentiment_breakdown |-> [positive |-> Count("positive"),
                                 negative |-> Count("negative"),
                                 neutral |-> Count("neutral")],
        change_from_previous |-> [current_mentions |-> total_current,
                                  previous_mentions |-> total_previous,
                                  absolute_change |-> total_current - total_previous],
        priority |-> _calculate_topic_priority(sentiment_score, trend_percentage,
                                               total_current)]

\* The sort key (x["priority"], -x["mentions"]) and its order
SortKeyLess(x, y) ==
    \/ x.priority < y.priority
    \/ x.priority = y.priority /\ 0 - x.mentions < 0 - y.mentions

\* list.sort(key=..., reverse=True): largest key first, entries with equal
\* keys in their earlier order
RECURSIVE SortReverse(_)
SortReverse(entries) ==
    IF entries = <<>> THEN <<>>
    ELSE LET sorted == SortReverse(SubSeq(entries, 1, Len(entries) - 1))
             x == entries[Len(entries)]
             before == Cardinality({k \in 1..Len(sorted) : ~SortKeyLess(sorted[k], x)})
         IN SubSeq(sorted, 1, before) \o <<x>> \o SubSeq(sorted, before + 1, Len(sorted))

\* The loop over the categories has no handler
TopicAnalysisRaises(current_mentions) ==
    \E i \in 1..Len(topic_categories) : TopicRaises(i, current_mentions)

_get_detailed_topic_analysis(current_mentions, previous_mentions) ==
    IF TopicAnalysisRaises(current_mentions) THEN Raises("KeyError") ELSE
    LET entries == [i \in 1..Len(topic_categories) |->
                       TopicEntry(i, current_mentions, previous_mentions)]
        detailed_analysis ==
            SelectInOrder(entries, {x \in Range(entries) : x.mentions # 0})
    IN SortReverse(detailed_analysis)

TopicRow(content, sentiment) ==
    UserMention([product_id |-> 1, platform |-> "App Store", content |-> content,
                 sentiment |-> sentiment, topics |-> Num(TopicsOf[content]),
                 keywords_matched |-> Num(KeywordsOf[content]),
                 is_processed |-> "processed"])

\* Mentions as ingestion classifies and stores them, and two rows as the
\* classification command leaves them: sentiment is a free String column,
\* the command stores the label the model answered with ("mixed") or ""
TopicRows ==
    {TopicRow(content, s) : content \in StoreTexts, s \in SentimentLabels}
    \cup {TopicRow("charged twice, app crash", "mixed"), TopicRow("great ride", "")}

MaxTopicMentions == 3

GetDetailedTopicAnalysis ==
    /\ call.op = "_get_detailed_topic_analysis"
    /\ pc = "pending"
    /\ pc' = IF TopicAnalysisRaises(call.current_mentions) THEN "raised" ELSE "done"
    /\ ret' = _get_detailed_topic_analysis(call.current_mentions,
                                           call.previous_mentions)
    /\ UNCHANGED <<call, mentions, env_openai, textblob, analyses, running, products>>

InitTopics ==
    InitCall({[op |-> "_get_detailed_topic_analysis",
               current_mentions |-> current_mentions,
               previous_mentions |-> previous_mentions] :
                 current_mentions \in SeqsUpTo(TopicRows, MaxTopicMentions),
                 previous_mentions \in SeqsUpTo(TopicRows, MaxTopicMentions - 2)})

NextTopics == GetDetailedTopicAnalysis

SpecTopics == InitTopics /\ [][NextTopics]_vars

-----------------------------------------------------------------------------
(* Issues with evidence: AnalysisService.extract_topics_and_themes,         *)
(* identify_key_issues and identify_key_issues_with_evidence                *)

negative_keywords ==
    <<"terrible", "awful", "horrible", "bad", "worst", "hate", "disgusting",
      "useless", "broken", "failed", "disappointed", "frustrated", "annoying",
      "slow", "crash", "bug", "issue", "problem", "complaint", "refund">>

stop_words ==
    {"the", "and", "or", "but", "in", "on", "at", "to", "for", "of", "with", "by",
     "is", "are", "was", "were", "be", "been", "have", "has", "had", "do", "does",
     "did", "will", "would", "could", "should", "may", "might", "must", "can", "a",
     "an", "this", "that", "these", "those", "i", "you", "he", "she", "it", "we",
     "they", "my", "your", "his", "her", "its", "our", "their"}

\* The maximal runs of word characters that begin at `starts`, in order
WordsFrom(text, starts) ==
    [k \in 1..Cardinality(starts) |->
        LET i == CHOOSE i \in starts : Cardinality({j \in starts : j < i}) = k - 1
            j == CHOOSE j \in i..Len(text) :
                     /\ \A m \in i..j : IsWordAt(text, m)
                     /\ ~IsWordAt(text, j + 1)
        IN SubSeq(text, i, j)]

\* re.findall(r'\b\w+\b', text)
FindAllWords(text) ==
    WordsFrom(text, {i \in 1..Len(text) : IsWordAt(text, i) /\ ~IsWordAt(text, i - 1)})

\* " ".join(texts)
RECURSIVE Join(_)
Join(texts) ==
    IF texts = <<>> THEN ""
    ELSE IF Len(texts) = 1 THEN texts[1]
    ELSE texts[1] \o " " \o Join(Tail(texts))

\* Each of the items at `firsts` with its count in `items`
CountsAt(items, firsts) ==
    [k \in 1..Cardinality(firsts) |->
        LET i == CHOOSE i \in firsts : Cardinality({j \in firsts : j < i}) = k - 1
        IN [key |-> items[i],
            freq |-> Cardinality({j \in 1..Len(items) : items[j] = items[i]})]]

\* Counter(items).items(): each distinct item with its count, in the order
\* of first occurrence
CounterItems(items) ==
    CountsAt(items, {i \in 1..Len(items) : \A j \in 1..(i - 1) : items[j] # items[i]})

\* x put behind the pairs of `sorted` that count at least as much
InsertByFreq(sorted, x) ==
    LET before == Cardinality({k \in 1..Len(sorted) : sorted[k].freq >= x.freq})
    IN SubSeq(sorted, 1, before) \o <<x>> \o SubSeq(sorted, before + 1, Len(sorted))

\* sorted(pairs, key=lambda x: x[1], reverse=True): larger count first,
\* equal counts in their earlier order
RECURSIVE SortedByFreq(_)
SortedByFreq(pairs) ==
    IF pairs = <<>> THEN <<>>
    ELSE InsertByFreq(SortedByFreq(SubSeq(pairs, 1, Len(pairs) - 1)), pairs[Len(pairs)])

\* if len(bigram) > 6
LongBigrams(bigrams) == SelectInOrder(bigrams, {b \in Range(bigrams) : Len(b) > 6})

\* The bigrams of the loop over range(len(words_list) - 1)
Bigrams(words) ==
    LongBigrams([i \in 1..(Len(words) - 1) |-> words[i] \o " " \o words[i + 1]])

\* filtered_words of the word counts
FilteredWords(word_freq, min_frequency) ==
    SelectInOrder(word_freq,
        {x \in Range(word_freq) : /\ Len(x.key) > 3
                                  /\ x.key \notin stop_words
                                  /\ x.freq >= min_frequency})

\* common_bigrams of the bigram counts
CommonBigrams(bigram_freq, min_frequency) ==
    SelectInOrder(bigram_freq, {x \in Range(bigram_freq) : x.freq >= min_frequency})

\* The result of extract_topics_and_themes from the words of the combined text
ThemesOf(words, total_texts_analyzed, min_frequency) ==
    [common_words |->
         Take(SortedByFreq(FilteredWords(CounterItems(words), min_frequency)), 20),
     common_phrases |->
         Take(SortedByFreq(CommonBigrams(CounterItems(Bigrams(words)), min_frequency)), 15),
     total_texts_analyzed |-> total_texts_analyzed]

extract_topics_and_themes(texts, min_frequency) ==
    ThemesOf(FindAllWords(Lower(Join(texts))), Len(texts), min_frequency)

\* review.get("content", "") or review.get("title", "")
ContentOrTitle(review) ==
    Or(Get(review, "content", ""), Get(review, "title", ""))

\* The key (priority_order[x["priority"]], x["frequency"]) and its order
IssueKeyLess(x, y) ==
    LET priority_order == [high |-> 3, medium |-> 2, low |-> 1]
    IN \/ priority_order[x.priority] < priority_order[y.priority]
       \/ /\ priority_order[x.priority] = priority_order[y.priority]
          /\ x.frequency < y.frequency

\* x put behind the issues of `sorted` whose key is not less
InsertIssue(sorted, x) ==
    LET before == Cardinality({k \in 1..Len(sorted) : ~IssueKeyLess(sorted[k], x)})
    IN SubSeq(sorted, 1, before) \o <<x>> \o SubSeq(sorted, before + 1, Len(sorted))

\* issues.sort(key=..., reverse=True)
RECURSIVE SortIssues(_)
SortIssues(issues) ==
    IF issues = <<>> THEN <<>>
    ELSE InsertIssue(SortIssues(SubSeq(issues, 1, Len(issues) - 1)), issues[Len(issues)])

\* The contents analysed as negative; labels[text] is
\* analyze_sentiment(text)["sentiment_label"]
NegativeReviews(contents, labels) ==
    SelectInOrder(contents,
        {content \in Range(contents) :
            content # "" /\ content # None /\ labels[content] = "negative"})

\* The issues of the common words that contain a negative keyword
ReviewIssues(common_words) ==
    [i \in 1..Len(common_words) |->
        [issue |-> common_words[i].key,
         type |-> "product_issue",
         frequency |-> common_words[i].freq,
         priority |-> IF common_words[i].freq > 5 THEN "high" ELSE "medium",
         source |-> "reviews"]]

\* if any(keyword in word for keyword in self.negative_keywords)
NegativeWords(common_words) ==
    SelectInOrder(common_words,
        {x \in Range(common_words) :
            \E keyword \in Range(negative_keywords) : Contains(x.key, keyword)})

ProductIssues(negative_reviews) ==
    IF negative_reviews = <<>> THEN <<>>
    ELSE ReviewIssues(NegativeWords(
             extract_topics_and_themes(negative_reviews, 2).common_words))

\* The results whose query names a complaint, a problem or an issue
NegativeItems(serp_data) ==
    SelectInOrder(serp_data,
        {item \in Range(serp_data) :
            ContainsAny(Lower(Get(item, "query", "")),
                        <<"complaint", "problem", "issue">>)})

\* f"{item.get('title', '')} {item.get('snippet', '')}" of each of them
NegativeSerpContent(items) ==
    [i \in 1..Len(items) |->
        Get(items[i], "title", "") \o " " \o Get(items[i], "snippet", "")]

SerpIssues(common_phrases) ==
    [i \in 1..Len(common_phrases) |->
        [issue |-> common_phrases[i].key,
         type |-> "reputation_issue",
         frequency |-> common_phrases[i].freq,
         priority |-> IF common_phrases[i].freq > 2 THEN "high" ELSE "medium",
         source |-> "serp"]]

ReputationIssues(negative_serp_content) ==
    IF negative_serp_content = <<>> THEN <<>>
    ELSE SerpIssues(extract_topics_and_themes(negative_serp_content, 1).common_phrases)

identify_key_issues(reviews, serp_data, labels) ==
    Take(SortIssues(
             ProductIssues(NegativeReviews(
                 [i \in 1..Len(reviews) |-> ContentOrTitle(reviews[i])], labels))
             \o ReputationIssues(NegativeSerpContent(NegativeItems(serp_data)))),
         10)

\* The first loop: the matching reviews in order, until three are found.
\* A review whose content or title is null, met before that, raises
\* TypeError (str + None).
RECURSIVE ReviewEvidence(_, _, _)
ReviewEvidence(issue, reviews, evidence) ==
    IF reviews = <<>> \/ Len(evidence) >= 3 THEN evidence
    ELSE IF TextRaises(reviews[1]) THEN Raises("TypeError")
    ELSE LET review == reviews[1]
             content == Lower(Get(review, "content", "") \o " "
                              \o Get(review, "title", ""))
         IN ReviewEvidence(issue, Tail(reviews),
                IF Contains(content, Lower(issue.issue))
                THEN Append(evidence,
                         [type |-> "review",
                          platform |-> Get(review, "platform", "unknown"),
                          snippet |-> Take(content, 150) \o "...",
                          rating |-> IF "rating" \in DOMAIN review
                                     THEN Num(review.rating) ELSE NoneNum,
                          date |-> Get(review, "date", "unknown")])
                ELSE evidence)

\* The second loop: the matching results in order, until the evidence holds
\* two of type serp
RECURSIVE SerpEvidence(_, _, _)
SerpEvidence(issue, serp_data, evidence) ==
    IF serp_data = <<>> THEN evidence
    ELSE LET serp_item == serp_data[1]
             title_snippet == Lower(Get(serp_item, "title", "") \o " "
                                    \o Get(serp_item, "snippet", ""))
         IN IF Contains(title_snippet, Lower(issue.issue))
            THEN LET found == Append(evidence,
                                  [type |-> "serp",
                                   title |-> Get(serp_item, "title", ""),
                                   snippet |-> Get(serp_item, "snippet", ""),
                                   source |-> Get(serp_item, "source", ""),
                                   link |-> Get(serp_item, "link", "")])
                 IN IF Cardinality({k \in 1..Len(found) : found[k].type = "serp"}) >= 2
                    THEN found
                    ELSE SerpEvidence(issue, Tail(serp_data), found)
            ELSE SerpEvidence(issue, Tail(serp_data), evidence)

\* One issue with its evidence; the generated insight sentence is left out.
EnhancedIssue(issue, evidence) ==
    [issue |-> issue.issue,
     type |-> issue.type,
     frequency |-> issue.frequency,
     priority |-> issue.priority,
     source |-> issue.source,
     evidence |-> evidence,
     evidence_count |-> Len(evidence)]

\* The first loop of this issue meets a null text before its third match
RECURSIVE ReviewEvidenceRaises(_, _, _)
ReviewEvidenceRaises(issue, reviews, found) ==
    IF reviews = <<>> \/ found >= 3 THEN FALSE
    ELSE IF TextRaises(reviews[1]) THEN TRUE
    ELSE ReviewEvidenceRaises(issue, Tail(reviews),
             IF Contains(ReviewText(reviews[1]), Lower(issue.issue))
             THEN found + 1 ELSE found)

\* The loop over the issues has no handler
EvidenceRaises(issues, reviews) ==
    \E i \in 1..Len(issues) : ReviewEvidenceRaises(issues[i], reviews, 0)

EnhancedIssues(issues, reviews, serp_data) ==
    IF EvidenceRaises(issues, reviews) THEN Raises("TypeError") ELSE
    [i \in 1..Len(issues) |->
        EnhancedIssue(issues[i],
            SerpEvidence(issues[i], serp_data, ReviewEvidence(issues[i], reviews, <<>>)))]

identify_key_issues_with_evidence(reviews, serp_data, labels) ==
    EnhancedIssues(identify_key_issues(reviews, serp_data, labels), reviews, serp_data)

\* Reviews and search results of one analysis.  The third review is 149
\* characters long, the second search result has a snippet of 159; the last
\* review has a null content and is analysed by its title.
EvidenceReviews ==
    { [platform |-> "App Store", content |-> "app crash on login", title |-> "Crash",
       rating |-> 1, date |-> "2024-01-05"],
      [platform |-> "Google Play", content |-> "crash again, no refund", rating |-> 2],
      [platform |-> "Trustpilot", rating |-> 1,
       content |-> "App crash after every update, the driver cancelled twice and support never answered, I was charged for a ride I did not take and got no refund at all"],
      [title |-> "App crash at pickup", rating |-> 2],
      [platform |-> "Reddit", content |-> None, title |-> "App crash at pickup"] }

EvidenceSerp ==
    { [query |-> "acme complaint", title |-> "Acme app crash",
       snippet |-> "users report app crash", source |-> "forum", link |-> "https://f.example/1"],
      [query |-> "acme reviews", title |-> "Acme reviews",
       snippet |-> "Users report that the app crash hits them at checkout, that drivers cancel without notice and that refunds take weeks, according to dozens of recent complaints"],
      [query |-> "Acme PROBLEM", title |-> "App crash", snippet |-> "app crash again",
       source |-> "news"] }

MaxReviews == 4
MaxSerp == 3

\* the lists of at most n different items
DistinctSeqs(S, n) ==
    {q \in SeqsUpTo(S, n) : \A i, j \in 1..Len(q) : i # j => q[i] # q[j]}

EvidenceTexts == {ContentOrTitle(review) : review \in EvidenceReviews}

EvidencePolarities == {FNeg(Pct50), Pct70}

\* analyze_sentiment(text)["sentiment_label"] without the API key, for each
\* polarity TextBlob may give
EvidenceLabelOf ==
    [text \in EvidenceTexts |-> [polarity \in EvidencePolarities |->
        analyze_sentiment(text, FALSE,
                          [polarity |-> polarity, subjectivity |-> Pct50],
                          NotCalled).sentiment_label]]

InitEvidence ==
    /\ call \in {[op |-> "identify_key_issues_with_evidence",
                  reviews |-> reviews, serp_data |-> serp_data] :
                    reviews \in DistinctSeqs(EvidenceReviews, MaxReviews),
                    serp_data \in DistinctSeqs(EvidenceSerp, MaxSerp)}
    /\ pc = "pending"
    /\ ret = None
    /\ analyses = <<>>
    /\ running = <<>>
    /\ products = StoredProducts
    /\ mentions = <<>>
    /\ env_openai = FALSE
    /\ textblob \in {[text \in EvidenceTexts |->
                         [polarity |-> polarity, subjectivity |-> Pct50]] :
                       polarity \in EvidencePolarities}

IdentifyKeyIssuesWithEvidence ==
    /\ call.op = "identify_key_issues_with_evidence"
    /\ pc = "pending"
    /\ pc' = IF EvidenceRaises(identify_key_issues(call.reviews, call.serp_data,
                     [text \in EvidenceTexts |->
                         EvidenceLabelOf[text][textblob[text].polarity]]),
                 call.reviews)
             THEN "raised" ELSE "done"
    /\ ret' = identify_key_issues_with_evidence(call.reviews, call.serp_data,
                  [text \in EvidenceTexts |->
                      EvidenceLabelOf[text][textblob[text].polarity]])
    /\ UNCHANGED <<call, mentions, env_openai, textblob, analyses, running, products>>

NextEvidence == IdentifyKeyIssuesWithEvidence

SpecEvidence == InitEvidence /\ [][NextEvidence]_vars

-----------------------------------------------------------------------------
(* The score request of the API served while the classification command     *)
(* runs.  The request is a session of its own: each of its two queries      *)
(* reads the committed table as it is at that moment, between any two steps *)
(* of the command.  There is no lock or flag that makes it wait.            *)

\* The request reads the clock and the rows of the current period
CallScoreWithChange(db, product_id, days_back, now) ==
    Result(db,
           Work([op |-> "_get_reputation_score_with_change",
                 product_id |-> product_id, days_back |-> days_back,
                 current_mentions |-> CurrentMentions(db, product_id, days_back, now)]),
           "previous", NoneDict)

\* The request reads the rows of the previous period and answers; `read`
\* keeps the rows of both periods as the two queries returned them.
ScorePrevious(db, frame, now) ==
    LET previous_mentions == PreviousMentions(db, frame.product_id,
                                              frame.days_back, now)
    IN Result(db, frame, "done",
              [op |-> "_get_reputation_score_with_change",
               read |-> frame.current_mentions \o previous_mentions,
               score |-> ScoreWithChange(frame.current_mentions, previous_mentions,
                                         frame.days_back, now)])

\* The table when the requests start: a collection of two items, saved
SnapshotTables ==
    {_save_collected_data(<<>>, collected_data, 1) :
        collected_data \in {q \in SeqsUpTo(RawReviews, MaxStore) : Len(q) = MaxStore}}

ScoreRequest ==
    \E s \in DOMAIN pc, product_id \in {0}, days_back \in {1} :
        /\ Free(s)
        /\ Leaves(s, CallScoreWithChange(mentions, product_id, days_back, Now))

ScoreRequestPrevious ==
    \E s \in DOMAIN pc :
        /\ Stands(s, "_get_reputation_score_with_change", "previous")
        /\ Leaves(s, ScorePrevious(mentions, call[s], Now))

InitSnapshot ==
    /\ analyses = <<>>
    /\ running = <<>>
    /\ products = StoredProducts
    /\ mentions \in SnapshotTables
    /\ env_openai = FALSE
    /\ textblob = <<>>
    /\ call = [s \in {"s1", "s2"} |-> Shell]
    /\ pc = [s \in {"s1", "s2"} |-> "idle"]
    /\ ret = [s \in {"s1", "s2"} |-> NoneDict]

NextSnapshot ==
    \/ NextRun
    \/ ScoreRequest
    \/ ScoreRequestPrevious

SpecSnapshot == InitSnapshot /\ [][NextSnapshot]_vars

-----------------------------------------------------------------------------
(* parse_and_store_mentions called on its own: a call returns the rows it   *)
(* created, or leaves by the exception that left its loop.                  *)

\* A scraped item whose platform is null: the row is built and added, and
\* the commit refuses it
NullPlatformReview == [id |-> "p", platform |-> None, content |-> "great ride"]

IngestReviews ==
    RawReviews \cup {NullContentReview, NullPlatformReview, WordyReview, SadReview}

MaxIngest == 2

InitIngest ==
    /\ analyses = <<>>
    /\ running = <<>>
    /\ products = StoredProducts
    /\ mentions = <<>>
    /\ env_openai \in BOOLEAN
    /\ textblob \in {f \in [IngestTexts -> UNION {StoreBlobs(t) : t \in IngestTexts}] :
                        \A t \in IngestTexts : f[t] \in StoreBlobs(t)}
    /\ call = [s \in {"s1"} |-> Shell]
    /\ pc = [s \in {"s1"} |-> "idle"]
    /\ ret = [s \in {"s1"} |-> NoneDict]

ParseAndStoreCall ==
    \E s \in DOMAIN pc, raw_reviews \in SeqsUpTo(IngestReviews, MaxIngest),
       product_id \in Products :
        /\ Free(s)
        /\ Len(mentions) + Len(raw_reviews) <= MaxIngest
        /\ Leaves(s, CallParseAndStoreMentions(mentions, raw_reviews, product_id))

NextIngest ==
    \/ ParseAndStoreCall
    \/ ParseAndStoreReview
    \/ ParseAndStoreCommit
    \/ ParseAndStoreRefresh
    \/ Return

SpecIngest == InitIngest /\ [][NextIngest]_vars

-----------------------------------------------------------------------------
(* C2 *)

\* The keyword lists as the claim gives them.
ClaimedCriticalKeywords ==
    <<"scam", "fraud", "illegal", "lawsuit", "refund", "hate", "disgusting",
      "crash", "bug", "error", "broken", "terrible", "worst", "awful">>

ClaimedHighKeywords ==
    <<"problem", "issue", "complaint", "disappointed", "frustrated",
      "not working", "failed", "slow", "lag">>

\* The cascade of the claim over given keyword lists: each tier holds iff its
\* condition holds and no earlier tier's does.
PriorityCascade(critical, high) ==
    LET s == call.sentiment
        i == call.intent
        text == Lower(call.content)
        sconf == Get(s, "confidence", Zero)
        isCritical ==
            \/ (s.sentiment_label = "negative" /\ FLess(Pct80, sconf))
            \/ (i.intent = "complaint" /\ FLess(Pct80, i.confidence))
            \/ \E k \in Range(critical) : Contains(text, k)
        isHigh ==
            \/ (s.sentiment_label = "negative" /\ FLess(Pct60, sconf))
            \/ i.intent = "complaint"
            \/ \E k \in Range(high) : Contains(text, k)
        isMedium == i.intent = "question" \/ s.sentiment_label = "neutral"
    IN /\ (ret = "critical") <=> isCritical
       /\ (ret = "high") <=> (~isCritical /\ isHigh)
       /\ (ret = "medium") <=> (~isCritical /\ ~isHigh /\ isMedium)
       /\ (ret = "low") <=> (~isCritical /\ ~isHigh /\ ~isMedium)
       /\ (\E k \in Range(critical) : Contains(text, k)) => ret = "critical"

\* C2 as stated: _determine_priority is the first-match cascade with the
\* claim's 14 critical keywords and 9 high keywords.
C2_CascadeWithClaimedKeywords ==
    (call.op = "_determine_priority" /\ pc = "done")
        => PriorityCascade(ClaimedCriticalKeywords, ClaimedHighKeywords)

\* C2 amended: _determine_priority is the first-match cascade critical / high /
\* medium / low, where the critical keywords are the claim's 14 plus stealing,
\* "money back" and "cancel subscription", and the high keywords are the
\* claim's 9 plus "doesn't work"; a text with a critical keyword is critical
\* whatever its sentiment and intent.
C2_CascadeWithCodeKeywords ==
    (call.op = "_determine_priority" /\ pc = "done")
        => PriorityCascade(critical_keywords, high_keywords)

\* A weakly positive text with a critical keyword was ranked critical.
C2_Witness ==
    /\ call.op = "_determine_priority"
    /\ call.sentiment.sentiment_label = "positive"
    /\ call.intent.intent = "recommendation"
    /\ Contains(Lower(call.content), "scam")
    /\ ret = "critical"

-----------------------------------------------------------------------------
(* C3 *)

\* sum of the deltas of the rules of `rules` that match the lowercased text
DeltaSum(rules, text) ==
    FSumFrom([i \in 1..Len(rules) |->
                 IF Search(rules[i], Lower(text)) THEN rules[i].delta ELSE Zero],
             Zero)

\* Two floats are the same number up to the rounding of a few binary64
\* additions: a sum of the same terms added in another order differs from
\* the code's by a few units in the last place, far less than 1e-9.
SameUpToRounding(x, y) == FLess(FAbs(FSub(x, y)), Num1_1000000000)

\* C3: on the local path the polarity is base + dissatisfaction deltas +
\* negative-reinforcement deltas + (positive-reinforcement deltas only when
\* base > 0), clamped to [-1, 1]; the label is positive above 0.05, negative
\* below -0.05 and neutral otherwise.
C3_LocalPolarityAndLabel ==
    (call.op = "analyze_sentiment" /\ pc = "done" /\ ret.method = "textblob_enhanced") =>
        LET base == textblob[call.text].polarity
            total == FAdd(FAdd(FAdd(base,
                                    DeltaSum(dissatisfaction_patterns, call.text)),
                               DeltaSum(negative_reinforcement_patterns, call.text)),
                          IF FLess(Zero, base)
                          THEN DeltaSum(positive_reinforcement_patterns, call.text)
                          ELSE Zero)
            clamped == IF FLess(One, total) THEN One
                       ELSE IF FLess(total, FNeg(One)) THEN FNeg(One) ELSE total
        IN /\ SameUpToRounding(ret.polarity, clamped)
           /\ (ret.sentiment_label = "positive") <=> FLess(Pct5, ret.polarity)
           /\ (ret.sentiment_label = "negative") <=> FLess(ret.polarity, FNeg(Pct5))
           /\ (ret.sentiment_label = "neutral")
                  <=> (~FLess(ret.polarity, FNeg(Pct5)) /\ ~FLess(Pct5, ret.polarity))

\* A positive-reinforcement rule matched a text whose base polarity is not
\* above 0, and its delta was left out.
C3_Witness ==
    /\ call.op = "analyze_sentiment"
    /\ pc = "done"
    /\ ret.method = "textblob_enhanced"
    /\ IsZero(textblob[call.text].polarity)
    /\ FLess(Zero, DeltaSum(positive_reinforcement_patterns, call.text))
    /\ FLess(DeltaSum(dissatisfaction_patterns, call.text), Zero)
    /\ FLess(ret.polarity, Zero)
    /\ ret.sentiment_label = "negative"

-----------------------------------------------------------------------------
(* C7 *)

\* C7: analyze_sentiment returns a polarity within [-1, 1], whatever the
\* external strategy does.
C7_PolarityInRange ==
    (call.op = "analyze_sentiment" /\ pc = "done") =>
        /\ IsNumber(ret.polarity)
        /\ ~FLess(ret.polarity, FNeg(One))
        /\ ~FLess(One, ret.polarity)

-----------------------------------------------------------------------------
(* C10 *)

\* The external strategy failed in one of the ways the claim lists: it raised,
\* its answer holds no JSON object, the object is malformed, or the object's
\* sentiment is none of positive, negative, neutral.
ExternalFailed(kickoff) ==
    \/ kickoff.raises
    \/ LET answer == Strip(kickoff.text)
           object == Slice(answer, Find(answer, "{"), RFind(answer, "}") + 1)
       IN \/ ~Contains(answer, "{")
          \/ ~JsonLoads(object).ok
          \/ /\ "sentiment" \in DOMAIN JsonLoads(object).value
             /\ JsonLoads(object).value.sentiment \notin SentimentLabels

\* C10: when the configured external strategy fails, analyze_sentiment
\* returns exactly what the local method gives for the text.
C10_FailureFallsBackToLocal ==
    (call.op = "analyze_sentiment" /\ pc = "done" /\ env_openai
        /\ ExternalFailed(call.kickoff))
        => ret = TextblobEnhanced(call.text, textblob[call.text])

-----------------------------------------------------------------------------
(* C4 *)

KeywordCount(text, keywords) ==
    Cardinality({k \in Range(keywords) : Contains(Lower(text), k)})

\* C4: classify_intent returns the category with the highest keyword count,
\* the earliest declared one on a tie, with confidence min(1, count/3) and
\* that category's matched keywords; with no keyword hit at all it returns
\* neutral_mention, confidence 0.5 and no keywords.
C4_IntentByHighestCount ==
    (call.op = "classify_intent" /\ pc = "done") =>
        LET count == [i \in 1..Len(intent_patterns) |->
                         KeywordCount(call.text, intent_patterns[i].keywords)]
        IN IF \A i \in DOMAIN count : count[i] = 0
           THEN /\ ret.intent = "neutral_mention"
                /\ ret.confidence = Pct50
                /\ ret.keywords_matched = <<>>
           ELSE \E i \in DOMAIN count :
                    /\ \A j \in DOMAIN count : count[j] <= count[i]
                    /\ \A j \in 1..(i - 1) : count[j] < count[i]
                    /\ ret.intent = intent_patterns[i].intent
                    /\ ret.confidence = FMin(One, F(count[i], 3))
                    /\ Len(ret.keywords_matched) = count[i]
                    /\ \A k \in Range(intent_patterns[i].keywords) :
                           (k \in Range(ret.keywords_matched))
                               <=> Contains(Lower(call.text), k)

\* Two categories tie for the highest count and the earlier declared one won.
C4_Witness ==
    /\ call.op = "classify_intent"
    /\ pc = "done"
    /\ KeywordCount(call.text, intent_patterns[1].keywords) = 1
    /\ KeywordCount(call.text, intent_patterns[3].keywords) = 1
    /\ KeywordCount(call.text, intent_patterns[2].keywords) = 0
    /\ KeywordCount(call.text, intent_patterns[4].keywords) = 0
    /\ ret.intent = "complaint"

-----------------------------------------------------------------------------
(* C5 *)

\* the review's content+title holds a keyword of the category
ReviewHits(review, entry) ==
    \E k \in Range(entry.keywords) :
        Contains(Lower(Get(review, "content", "") \o " " \o Get(review, "title", "")), k)

\* number of reviews of the batch that hold a keyword of the category
HitCount(reviews, entry) ==
    Cardinality({i \in 1..Len(reviews) : ReviewHits(reviews[i], entry)})

\* the (review, category) pairs that hit, in scan order: review by review,
\* and within a review in the order of the category map
RECURSIVE HitPairs(_, _, _)
HitPairs(reviews, i, c) ==
    IF i > Len(reviews) THEN <<>>
    ELSE IF c > Len(crisis_keywords) THEN HitPairs(reviews, i + 1, 1)
    ELSE (IF ReviewHits(reviews[i], crisis_keywords[c])
          THEN <<[review_id |-> Get(reviews[i], "id", "unknown"),
                  category |-> crisis_keywords[c].category]>>
          ELSE <<>>)
         \o HitPairs(reviews, i, c + 1)

\* C5: for every batch the detector returns a result for (every batch whose
\* reviews have a text), each category's count is the number of reviews
\* holding one of its keywords (at most 1 per review), total_signals is the
\* sum of the four counts, and affected_reviews is the first
\* min(5, total_signals) samples in scan order; n reviews that match only the
\* technical category give n.
C5_CountsPerReviewAndSamples ==
    (call.op = "detect_crisis_signals" /\ pc = "done") =>
        LET reviews == call.reviews
            breakdown == Get(ret, "category_breakdown", <<>>)
            affected == Get(ret, "affected_reviews", <<>>)
            pairs == HitPairs(reviews, 1, 1)
            counts == [c \in 1..Len(crisis_keywords) |-> HitCount(reviews, crisis_keywords[c])]
        IN /\ \A c \in 1..Len(crisis_keywords) :
                  Get(breakdown, crisis_keywords[c].category, 0) = counts[c]
           /\ ret.total_signals = SumSeq(counts)
           /\ Len(affected) = Min(5, ret.total_signals)
           /\ \A k \in 1..Len(affected) :
                  /\ affected[k].review_id = pairs[k].review_id
                  /\ affected[k].category = pairs[k].category
           /\ (\A i \in 1..Len(reviews) :
                   \A c \in 1..Len(crisis_keywords) :
                       ReviewHits(reviews[i], crisis_keywords[c]) <=> c = 1)
                  => ret.total_signals = Len(reviews)

\* A batch of three reviews, each with several technical keywords and no
\* other category, gave exactly three signals.
C5_Witness ==
    /\ call.op = "detect_crisis_signals"
    /\ pc = "done"
    /\ Len(call.reviews) = 3
    /\ \A i \in 1..3 : call.reviews[i].content = "crash after crash, totally broken"
    /\ ret.total_signals = 3
    /\ ret.category_breakdown = [c \in {"technical"} |-> 3]

-----------------------------------------------------------------------------
(* C6 *)

\* C6: the result is level none with 0 signals and no alerts iff the batch is
\* empty; the result for a non-empty batch has the level critical from 10
\* signals, high from 5, medium from 2 and low below.
C6_LevelByTotalSignals ==
    (call.op = "detect_crisis_signals" /\ pc = "done") =>
        /\ (ret.crisis_level = "none" /\ ret.total_signals = 0 /\ ret.alerts = <<>>)
               <=> (call.reviews = <<>>)
        /\ call.reviews # <<>> =>
               /\ (ret.crisis_level = "critical") <=> (ret.total_signals >= 10)
               /\ (ret.crisis_level = "high")
                      <=> (ret.total_signals >= 5 /\ ret.total_signals <= 9)
               /\ (ret.crisis_level = "medium")
                      <=> (ret.total_signals >= 2 /\ ret.total_signals <= 4)
               /\ (ret.crisis_level = "low")
                      <=> (ret.total_signals >= 0 /\ ret.total_signals <= 1)

\* A non-empty batch reached exactly 10 signals and was ranked critical.
C6_Witness ==
    /\ call.op = "detect_crisis_signals"
    /\ pc = "done"
    /\ call.reviews # <<>>
    /\ ret.total_signals = 10
    /\ ret.crisis_level = "critical"

-----------------------------------------------------------------------------
(* C1 *)

\* The weight of the claim: priority weight x intent modifier x confidence
\* weight, the confidence weight being the stored score whenever there is one
\* (0 included) and 0.5 only when there is none.
ClaimedWeight(mention) ==
    FMul(FMul(PriorityWeight(mention), IntentModifier(mention)),
         IF mention.confidence_score = NoneNum THEN Pct50
         ELSE mention.confidence_score[1])

\* C1: for a non-empty mention set the score is the weighted mean
\* sum(sentimentValue * weight) / sum(weight) clamped to [0, 100], with the
\* claim's weights (stated where that mean exists: the weights sum to
\* something positive).
C1_WeightedMeanWithStoredConfidence ==
    (call.op = "_calculate_reputation_score" /\ pc = "done" /\ call.mentions # <<>>) =>
        LET ms == call.mentions
            total == FSumFrom([i \in 1..Len(ms) |-> ClaimedWeight(ms[i])], Zero)
            weighted == FSumFrom([i \in 1..Len(ms) |->
                                     FMul(SentimentScore(ms[i]), ClaimedWeight(ms[i]))],
                                 Zero)
        IN FLess(Zero, total) =>
               FCmp(ret, FMax(Zero, FMin(Num100, FDiv(weighted, total)))) = 0

-----------------------------------------------------------------------------
(* C9 *)

\* C9: the score is exactly 50 for an empty mention set and whenever the
\* function's total_weight is not positive, and it lies within [0, 100] for
\* every mention set.  (total_weight is the sum of the final_weight values
\* the function computes.)
C9_BaselineAndRange ==
    (call.op = "_calculate_reputation_score" /\ pc = "done") =>
        /\ call.mentions = <<>> => ret = Num50
        /\ ~FLess(Zero, TotalWeight(call.mentions)) => ret = Num50
        /\ ~FLess(ret, Zero)
        /\ ~FLess(Num100, ret)

\* A non-empty set whose weights cancel (one negative confidence) scored 50,
\* although its only positively weighted mention is negative.
C9_Witness ==
    /\ call.op = "_calculate_reputation_score"
    /\ pc = "done"
    /\ Len(call.mentions) = 2
    /\ call.mentions[1].sentiment = "negative"
    /\ FLess(Zero, FinalWeight(call.mentions[1]))
    /\ IsZero(TotalWeight(call.mentions))
    /\ ret = Num50

-----------------------------------------------------------------------------
(* C8 *)

\* C8: after any sequence of parse_and_store_mentions,
\* classify_user_mentions, update_sentiment_classifications and
\* _process_records_with_openai, every stored confidence_score is unset or
\* within [0, 1].
C8_StoredConfidenceInRange ==
    \A i \in 1..Len(mentions) :
        \/ mentions[i].confidence_score = NoneNum
        \/ /\ ~FLess(mentions[i].confidence_score[1], Zero)
           /\ ~FLess(One, mentions[i].confidence_score[1])

-----------------------------------------------------------------------------
(* C11 *)

\* C11: if the external classification call never answers, the mention is
\* still classified through the fallback and the command goes on to the
\* remaining mentions and returns: every wait for the external model is
\* eventually followed by the command's return.
C11_HungCallStillCompletes == (pc["s1"] = "waiting") ~> (pc["s1"] = "done")

-----------------------------------------------------------------------------
(* C12 *)

\* The change the claim computes from the two period scores
ClaimedChange(current_mentions, previous_mentions) ==
    LET current_score == _calculate_reputation_score(current_mentions)
        previous_score == _calculate_reputation_score(previous_mentions)
    IN IF FLess(Zero, previous_score)
       THEN RoundTenths(PercentageChange(current_score, previous_score))
       ELSE Zero

\* C12: the two periods are scored independently, the reported
\* percentage_change is (current - previous)/previous*100 when the previous
\* score is > 0 and 0 with direction no_change otherwise, and the reported
\* change_direction agrees with the sign of the reported percentage_change.
C12_ChangeAndDirectionAgree ==
    (pc = "done" /\ call.op = "_get_reputation_score_with_change") =>
        LET current_mentions ==
                CurrentMentions(mentions, call.product_id, call.days_back, Now)
            previous_mentions ==
                PreviousMentions(mentions, call.product_id, call.days_back, Now)
            previous_score == _calculate_reputation_score(previous_mentions)
        IN /\ ret.current_score
                  = RoundTenths(_calculate_reputation_score(current_mentions))
           /\ ret.previous_score = RoundTenths(previous_score)
           /\ ret.percentage_change = ClaimedChange(current_mentions, previous_mentions)
           /\ ~FLess(Zero, previous_score)
                  => ret.change_direction = "no_change"
           /\ ret.change_direction = "increase" <=> FLess(Zero, ret.percentage_change)
           /\ ret.change_direction = "decrease" <=> FLess(ret.percentage_change, Zero)
           /\ ret.change_direction = "no_change" <=> IsZero(ret.percentage_change)

-----------------------------------------------------------------------------
(* C13 *)

TrendDone == pc = "done" /\ call.op = "_calculate_realistic_trend"

\* The raw percentage change clamped to [-100, +500]
ClampedRaw(current_mentions, previous_mentions) ==
    FMax(FNeg(Num100),
         FMin(Num500, RawPercentage(current_mentions, previous_mentions)))

\* The edge cases and the range, which the claim and its amended form share
TrendEdgeCases ==
    /\ (call.previous_mentions = 0 /\ call.current_mentions > 0) => ret = Num100
    /\ (call.previous_mentions = 0 /\ call.current_mentions = 0) => ret = Zero
    /\ (call.current_mentions = 0 /\ call.previous_mentions > 0) => ret = FNeg(Num100)
    /\ ~FLess(ret, FNeg(Num100)) /\ ~FLess(Num500, ret)

\* C13 as claimed: the trend is +100, 0 and -100 in the three edge cases,
\* for previous > 3 it is exactly the raw percentage change clamped to
\* [-100, +500], and every result lies within [-100, +500].
C13_TrendIsClampedRaw ==
    TrendDone =>
        /\ TrendEdgeCases
        /\ call.previous_mentions > 3 =>
               FCmp(ret, ClampedRaw(call.current_mentions, call.previous_mentions)) = 0

\* C13 as amended: the same, with the clamped raw percentage change rounded
\* to one decimal place for previous > 3.
C13_TrendIsRoundedClampedRaw ==
    TrendDone =>
        /\ TrendEdgeCases
        /\ call.previous_mentions > 3 =>
               ret = RoundTenths(ClampedRaw(call.current_mentions,
                                            call.previous_mentions))

\* A trend above +500 before the cap, with a previous count above 3
C13_Witness ==
    /\ TrendDone
    /\ call.previous_mentions > 3
    /\ call.current_mentions > 6 * call.previous_mentions
    /\ ret = Num500

-----------------------------------------------------------------------------
(* C14 *)

SmallSample == TrendDone /\ 1 <= call.previous_mentions /\ call.previous_mentions <= 3

\* C14 as claimed: for 1 <= previous <= 3 the trend is the raw percentage
\* change capped at +300 when current > 3*previous, is not below -75 when
\* current < previous/3, and is exactly the raw percentage change otherwise.
C14_SmallSampleCaps ==
    SmallSample =>
        LET raw == RawPercentage(call.current_mentions, call.previous_mentions)
        IN IF call.current_mentions > 3 * call.previous_mentions
           THEN FCmp(ret, FMin(Num300, raw)) = 0
           ELSE IF 3 * call.current_mentions < call.previous_mentions
           THEN ~FLess(ret, FNeg(Num75))
           ELSE FCmp(ret, raw) = 0

\* C14 as amended: for 1 <= previous <= 3 the trend is -100 when current is
\* 0, the raw percentage change capped at +300 and rounded to one decimal
\* place when current > 3*previous, and the raw percentage change rounded
\* to one decimal place otherwise; with current >= 1 the count is never
\* below a third of previous, so no result is capped at -75.
C14_SmallSampleCapsRounded ==
    SmallSample =>
        LET raw == RawPercentage(call.current_mentions, call.previous_mentions)
        IN /\ call.current_mentions = 0 => ret = FNeg(Num100)
           /\ call.current_mentions >= 1 =>
                  /\ 3 * call.current_mentions >= call.previous_mentions
                  /\ ret = IF call.current_mentions > 3 * call.previous_mentions
                           THEN RoundTenths(FMin(Num300, raw))
                           ELSE RoundTenths(raw)

\* previous = 1 and current = 10: +300, not +900
C14_Witness ==
    /\ TrendDone
    /\ call.previous_mentions = 1
    /\ call.current_mentions = 10
    /\ ret = Num300

-----------------------------------------------------------------------------
(* C15 *)

\* C15: the list holds no topic with zero current-period mentions and is
\* ordered by priority descending and, among topics of equal priority, by
\* current-period mention count descending.
C15_TopicsByPriorityThenMentions ==
    (pc = "done" /\ call.op = "_get_detailed_topic_analysis") =>
        /\ \A k \in 1..Len(ret) : ret[k].mentions > 0
        /\ \A k \in 1..(Len(ret) - 1) :
               \/ ret[k].priority > ret[k + 1].priority
               \/ /\ ret[k].priority = ret[k + 1].priority
                  /\ ret[k].mentions >= ret[k + 1].mentions

-----------------------------------------------------------------------------
(* C17 *)

\* The classification columns of a row that hold a value
ClassificationSet(mention) ==
    {k \in {"sentiment", "intent", "priority"} : mention[k] # None}
    \cup {k \in {"confidence_score", "keywords_matched", "topics"} :
            mention[k] # NoneNum}

\* C17: in every stored state the classification fields of a mention
\* (sentiment, intent, priority, confidence_score, keywords_matched, topics)
\* are either all unset or all set.
C17_ClassificationAllOrNothing ==
    \A i \in 1..Len(mentions) :
        Cardinality(ClassificationSet(mentions[i])) \in {0, 6}

-----------------------------------------------------------------------------
(* C20 *)

Labels(mention) == <<mention.sentiment, mention.intent, mention.priority>>

\* Every row that held all three labels in `db` holds the same in `after`
LabelsKept(db, after) ==
    \A i \in 1..Len(db) :
        (db[i].sentiment # None /\ db[i].intent # None /\ db[i].priority # None
         /\ after[i].content = db[i].content)
            => Labels(after[i]) = Labels(db[i])

\* C20: reclassifying an already-classified mention with unchanged text by a
\* rule-based classification operation (classify_user_mentions over all
\* mentions with the rule-based fallback, update_sentiment_classifications
\* without the external strategy) leaves its sentiment, intent and priority
\* labels as they were.  Ingestion classifies new rows only.
C20_ReclassificationKeepsLabels ==
    /\ \A batch_size \in 1..MaxStore, product_id \in {0} \cup Products :
           LabelsKept(mentions,
               classify_user_mentions(mentions, batch_size, FALSE, product_id,
                   [i \in Range(ClassifyQuery(mentions, FALSE, product_id)) |->
                       [raises |-> TRUE]]))
    /\ env_openai = FALSE =>
           \A filter_type \in {"all", "neutral", "positive", "misclassified"},
              max_items \in 0..1 :
               LabelsKept(mentions,
                   update_sentiment_classifications(mentions, filter_type, max_items,
                       FALSE, textblob,
                       [i \in Range(SentimentQuery(mentions, filter_type, max_items))
                           |-> NotCalled]))

-----------------------------------------------------------------------------
(* C18 *)

\* The items of a call that classify without failure
Classifiable(raw_reviews) ==
    SelectInOrder(raw_reviews,
                  {review_data \in IngestReviews : ~CreateMentionRaises(review_data)})

\* C18: a failure while classifying one item does not propagate out of
\* parse_and_store_mentions: the call returns, and every other item of the
\* batch is classified and stored (an item that repeats a stored row has
\* that row's content).
C18_FailureStaysInsideItsMention ==
    \A s \in DOMAIN pc :
        (pc[s] = "done" /\ call[s].op = "parse_and_store_mentions")
            => /\ ~ret[s].raised
               /\ \A i \in 1..Len(Classifiable(call[s].raw_reviews)) :
                      \E m \in Range(mentions) :
                          /\ m.content = Classifiable(call[s].raw_reviews)[i].content
                          /\ m.is_processed = "processed"

-----------------------------------------------------------------------------
(* C19 *)

\* C19: the scorer never reads a batch whose classification is in progress:
\* in every interleaving of a score request with the running classification
\* command or with the placeholder rows of ingestion, every mention of the
\* scored window that the request read is fully classified.
C19_ScorerReadsClassifiedOnly ==
    \A s \in DOMAIN ret :
        "read" \in DOMAIN ret[s]
            => \A i \in 1..Len(ret[s].read) :
                   Cardinality(ClassificationSet(ret[s].read[i])) = 6

-----------------------------------------------------------------------------
(* C16 *)

EvidenceOfType(issue, type) ==
    SelectInOrder(issue.evidence, {x \in Range(issue.evidence) : x.type = type})

\* C16: every issue returned by identify_key_issues_with_evidence carries at
\* most 3 review-evidence items and at most 2 serp-evidence items, and every
\* evidence snippet, review or serp, is at most 150 characters long.
C16_EvidenceIsBounded ==
    (pc = "done" /\ call.op = "identify_key_issues_with_evidence")
        => \A i \in 1..Len(ret) :
               /\ Len(EvidenceOfType(ret[i], "review")) <= 3
               /\ Len(EvidenceOfType(ret[i], "serp")) <= 2
               /\ \A k \in 1..Len(ret[i].evidence) :
                      Len(ret[i].evidence[k].snippet) <= 150

-----------------------------------------------------------------------------
(* C22 *)

\* C22: every processed mention's intent is one of complaint, question,
\* recommendation, neutral_mention, whichever path classified it (ingestion,
\* the external classifier or the rule-based fallback).
C22_IntentInVocabulary ==
    \A i \in 1..Len(mentions) :
        mentions[i].is_processed = "processed" => mentions[i].intent \in IntentNames

-----------------------------------------------------------------------------
(* C23 *)

\* C23: every processed mention stores at most 7 matched keywords and at
\* most 4 topics, whichever path classified it.
C23_KeywordsAndTopicsBounded ==
    \A i \in 1..Len(mentions) :
        mentions[i].is_processed = "processed"
            => /\ Len(mentions[i].keywords_matched[1]) <= 7
               /\ Len(mentions[i].topics[1]) <= 4

-----------------------------------------------------------------------------
(* C29 *)

\* C29: at ingestion with the local rule-based sentiment (no API key), a
\* mention is ranked low only when its sentiment label is positive or its
\* intent is recommendation, and no negative mention is ranked low.
C29_LowOnlyForPositiveOrRecommendation ==
    ~env_openai =>
        \A i \in 1..Len(mentions) :
            mentions[i].priority = "low"
                => /\ mentions[i].sentiment = "positive" \/ mentions[i].intent = "recommendation"
                   /\ mentions[i].sentiment # "negative"

-----------------------------------------------------------------------------
(* C24 *)

\* The original date the raw item asks for: its own date when that is a
\* datetime or a valid ISO text, the ingestion time otherwise; the column
\* keeps the fields of either.
SourceDate(review_data) ==
    LET date == Get(review_data, "date", NoDate)
        parsed == fromisoformat(Replace(date.value, "Z", "+00:00"))
    IN IF date.type = "datetime" THEN Stored(date.value)
       ELSE IF date.type = "str" /\ parsed.ok THEN Stored(parsed.value)
       ELSE Now

\* C24: every ingested mention has a non-null original date, the source's
\* own date when the raw item supplies a valid one and the ingestion time
\* otherwise, on both ingestion paths.
C24_OriginalDateFromSourceOrNow ==
    \A i \in 1..Len(mentions) :
        /\ mentions[i].original_date # NoneNum
        /\ \A r \in RawReviews :
               Get(r, "content", "") = mentions[i].content
                   => mentions[i].original_date = Num(SourceDate(r))

-----------------------------------------------------------------------------
(* The reviewer's endpoint PATCH /mentions/{mention_id}/mark next to the    *)
(* commands that write the store.  The endpoint's frame holds its arguments *)
(* and the id of the row it found.                                          *)

\* The row with UserMention.id == mention_id; ids are given in insert order.
MentionById(db, mention_id) == {i \in 1..Len(db) : db[i].id = Num(mention_id)}

\* query.first(): without the row the endpoint answers 404
CallMarkMention(db, mention_id, is_marked) ==
    LET frame == Work([op |-> "mark_mention", mention_id |-> mention_id,
                       is_marked |-> is_marked])
    IN IF MentionById(db, mention_id) = {}
       THEN Result(db, frame, "done",
                   [status_code |-> 404, detail |-> "Mention not found"])
       ELSE Result(db, Load(frame, db, MentionById(db, mention_id)), "commit",
                   NoneDict)

\* mention.is_marked = is_marked; db.commit()
MarkCommit(db, frame) ==
    LET marked == Set(frame, frame.mention_id, "is_marked", frame.is_marked)
    IN Result(Commit(db, marked).db, Commit(db, marked).session, "refresh",
              NoneDict)

\* db.refresh(mention) and the answer
MarkRefresh(db, frame) ==
    Result(db, Refresh(frame, db, frame.mention_id), "done",
           [success |-> TRUE,
            mention_id |-> frame.mention_id,
            is_marked |-> frame.is_marked,
            message |-> "Mention " \o (IF frame.is_marked THEN "marked"
                                       ELSE "unmarked") \o " successfully"])

MarkMention ==
    \E s \in DOMAIN pc, mention_id \in 1..MaxStore, is_marked \in BOOLEAN :
        /\ Free(s)
        /\ Leaves(s, CallMarkMention(mentions, mention_id, is_marked))

MarkMentionCommit ==
    \E s \in DOMAIN pc :
        /\ Stands(s, "mark_mention", "commit")
        /\ Leaves(s, MarkCommit(mentions, call[s]))

MarkMentionRefresh ==
    \E s \in DOMAIN pc :
        /\ Stands(s, "mark_mention", "refresh")
        /\ Leaves(s, MarkRefresh(mentions, call[s]))

\* The store without the API key, TextBlob scoring every text -0.5
InitMark ==
    /\ analyses = <<>>
    /\ running = <<>>
    /\ products = StoredProducts
    /\ mentions = <<>>
    /\ env_openai = FALSE
    /\ textblob = [t \in StoreTexts |->
                      CHOOSE b \in StoreBlobs(t) : t = "" \/ FLess(b.polarity, Zero)]
    /\ call = [s \in Sessions |-> Shell]
    /\ pc = [s \in Sessions |-> "idle"]
    /\ ret = [s \in Sessions |-> NoneDict]

NextMark ==
    \/ NextStore
    \/ MarkMention
    \/ MarkMentionCommit
    \/ MarkMentionRefresh

SpecMark == InitMark /\ [][NextMark]_vars

-----------------------------------------------------------------------------
(* C25 *)

\* What every step other than the reviewer's leaves of the marks: the rows
\* stay, each with its mark, and a row that is new is unmarked.  The
\* reviewer's step is one taken by a session that serves the endpoint.
MarksKept ==
    /\ Len(mentions') >= Len(mentions)
    /\ \A i \in 1..Len(mentions) : mentions'[i].is_marked = mentions[i].is_marked
    /\ \A i \in (Len(mentions) + 1)..Len(mentions') : mentions'[i].is_marked = FALSE

\* C25: is_marked is changed only by mark_mention; ingestion, classification
\* and sentiment updates leave the mark of every stored mention as it was,
\* and a newly ingested mention starts unmarked.
C25_OnlyMarkMentionChangesMark ==
    [][(\E s \in DOMAIN call : call[s].op = "mark_mention" /\ pc'[s] # pc[s])
       \/ MarksKept]_vars

\* A mention the reviewer marked was classified by another session before
\* the endpoint answered (its row differs from the one the endpoint
\* refreshed) and is still marked, next to a mention ingested unmarked.
C25_Witness ==
    \E s \in DOMAIN call :
        /\ call[s].op = "mark_mention"
        /\ pc[s] = "done"
        /\ call[s].is_marked
        /\ \E i \in MentionById(mentions, call[s].mention_id) :
               /\ i \in DOMAIN call[s].loaded
               /\ mentions[i].is_marked
               /\ mentions[i] # call[s].loaded[i]
               /\ mentions[i].is_processed = "processed"
        /\ \E j \in 1..Len(mentions) : ~mentions[j].is_marked

-----------------------------------------------------------------------------
(* C26 *)

\* C26: when classify_user_mentions(filter_unprocessed=True) returns success
\* with zero errors, no mention with content is left matching the
\* unprocessed filter (rows only leave the filter, so a row matching it at
\* the end matched it when the run started).
C26_NoUnprocessedSkipped ==
    (/\ pc["s1"] = "done"
     /\ call["s1"].op = "classify_user_mentions"
     /\ call["s1"].filter_unprocessed
     /\ ret["s1"].success
     /\ ret["s1"].errors = 0)
        => \A i \in Range(ClassifyQuery(mentions, TRUE, call["s1"].product_id)) :
               mentions[i].content = None \/ Strip(mentions[i].content) = ""

-----------------------------------------------------------------------------
(* C27 *)

\* C27: after any sequence of ingestion calls no two stored mentions share
\* the same (platform, external_id) pair, also when one id occurs twice
\* inside one input batch.
C27_NoDuplicateMentions ==
    \A i, j \in 1..Len(mentions) :
        (/\ mentions[i].platform = mentions[j].platform
         /\ mentions[i].external_id = mentions[j].external_id) => i = j

-----------------------------------------------------------------------------
(* ReputationService.analyze_product_reputation: core/reputation_service.py *)
(* The crew, the scrapers and the SERP service are outside: what            *)
(* analyze_brand_reputation, _collect_reddit_mentions,                      *)
(* _collect_trustpilot_reviews and _get_real_serp_data return is an input.  *)
(* _get_real_app_store_data and _get_real_google_play_data return []: the   *)
(* scraper gives a list, and 'reviews' is no item of a list of reviews.     *)
(* OPENAI_API_KEY is not set, analyze_sentiment is TextBlob's estimate.     *)

MaxAnalyses == 2

MaxCollected == 1

MaxProducts == 2

\* The names products are created with: one contains the other
ProductNames == {"Acme", "Acme Pro"}

\* SQLite's lower() and LIKE fold the letters A to Z and no other
AsciiUppercase == Chars("ABCDEFGHIJKLMNOPQRSTUVWXYZ")

AsciiLower(c) == IF c \in AsciiUppercase THEN UpperToLower[c] ELSE c

\* text[i:] matches pattern[j:]: % stands for any characters, _ for one
RECURSIVE LikeFrom(_, _, _, _)
LikeFrom(text, i, pattern, j) ==
    IF j > Len(pattern) THEN i > Len(text)
    ELSE IF CharAt(pattern, j) = "%"
    THEN \/ LikeFrom(text, i, pattern, j + 1)
         \/ i <= Len(text) /\ LikeFrom(text, i + 1, pattern, j)
    ELSE /\ i <= Len(text)
         /\ \/ CharAt(pattern, j) = "_"
            \/ AsciiLower(CharAt(text, i)) = AsciiLower(CharAt(pattern, j))
         /\ LikeFrom(text, i + 1, pattern, j + 1)

\* Product.name.ilike(f"%{product_name}%"), which is lower(name) LIKE
\* lower('%' || product_name || '%') in the default database, SQLite: the
\* name contains product_name, whatever the case of the letters
ILike(name, product_name) == LikeFrom(name, 1, "%" \o product_name \o "%", 1)

\* get_product_by_name: db.query(Product).filter(...).first().  The query
\* has no ORDER BY; the default database, SQLite, goes through the table in
\* the order of the ids, and the first match is the one with the least id.
\* None without a match.
get_product_by_name(db, product_name) ==
    LET found == {i \in 1..Len(db) : ILike(db[i].name, product_name)}
    IN IF found = {} THEN NoneDict
       ELSE db[CHOOSE i \in found : \A j \in found : i <= j]

\* create_product: Product(**product_data), db.add, db.commit, db.refresh.
\* Of the product its id and its name are kept.
create_product(db, product_data) ==
    Append(db, [id |-> Len(db) + 1, name |-> product_data.name])

\* An exception with the text str(e) gives
RaisedWith(exception, str) == [raises |-> exception, str |-> str]

\* What the Reddit scraper builds of a post without selftext and of a
\* comment: external_id and no id; a comment's title is None.  'rating':
\* None is, as for every review here, the record without the rating; the
\* keys no reader of the item looks at (author, source_url, upvotes, score,
\* subreddit) are left out.
RedditPost ==
    [platform |-> "Reddit", external_id |-> "reddit_post_1", title |-> "great ride",
     content |-> "great ride", date |-> [type |-> "str", value |-> "2024-01-05T10:00:00"]]

RedditComment ==
    [platform |-> "Reddit", external_id |-> "reddit_comment_2", title |-> None,
     content |-> "charged twice, app crash",
     date |-> [type |-> "str", value |-> "2024-01-05T10:00:00"]]

\* An item that has every key the citations read and a null platform
UnplacedReview ==
    [id |-> "u", platform |-> None, content |-> "great ride", rating |-> 5,
     date |-> [type |-> "str", value |-> "yesterday"]]

\* What a collector may hand over: the items of the Reddit scraper, the raw
\* items that have an id, and the item without platform
CollectedItems ==
    {RedditPost, RedditComment, UnplacedReview}
    \cup {r \in RawReviews : "id" \in DOMAIN r}

Collections == SeqsUpTo(CollectedItems, MaxCollected)

\* _get_real_serp_data returns search_brand_reputation's dictionary, one
\* entry for each of its six queries, and [] when the service raised
SerpAnswers ==
    { [list |-> <<>>],
      [dict |-> <<"Acme reviews", "Acme complaints", "Acme problems",
                  "Acme customer service", "Acme news", "Acme reputation">>] }

\* analyze_brand_reputation's answers: crew.kickoff() returned or raised
CrewResults ==
    { [success |-> TRUE, analysis_result |-> "report"],
      [success |-> FALSE, error |-> "kickoff failed"] }

\* real_serp or []: the items a loop over it meets.  A loop over a
\* dictionary meets its keys, and a key has no get()
SerpList(serp_data) == IF "list" \in DOMAIN serp_data THEN serp_data.list ELSE <<>>

SerpRaises(serp_data) == "dict" \in DOMAIN serp_data /\ serp_data.dict # <<>>

\* "if content:" of content = review.get("content", "") or review.get("title", "")
HasText(text) == text # "" /\ text # None

\* The contents that are analysed, in the order of the reviews
AnalysedTexts(reviews) ==
    SelectSeq([i \in 1..Len(reviews) |-> ContentOrTitle(reviews[i])], HasText)

\* np.mean: the sum from the left over the count
Mean(values) == FDiv(FSumFrom(values, Zero), F(Len(values), 1))

\* sentiment[text] is analyze_sentiment(text)
analyze_reviews_sentiment(reviews, sentiment) ==
    IF reviews = <<>>
    THEN [average_sentiment |-> Zero, positive_count |-> 0, negative_count |-> 0,
          neutral_count |-> 0, total_reviews |-> 0]
    ELSE LET texts == AnalysedTexts(reviews)
             count(label) ==
                 Cardinality({i \in 1..Len(texts) :
                                 sentiment[texts[i]].sentiment_label = label})
         IN [average_sentiment |->
                 IF texts = <<>> THEN Zero
                 ELSE Mean([i \in 1..Len(texts) |-> sentiment[texts[i]].polarity]),
             positive_count |-> count("positive"),
             negative_count |-> count("negative"),
             neutral_count |-> count("neutral"),
             sentiment_distribution |->
                 [k \in SentimentLabels |-> F(count(k), Len(reviews))],
             total_reviews |-> Len(reviews)]

calculate_reputation_score(reviews_data, serp_data, issues) ==
    LET sentiment_score ==
            IF Get(reviews_data, "total_reviews", 0) > 0
            THEN FMul(FAdd(Get(reviews_data, "average_sentiment", Zero), One), F(25, 1))
            ELSE Zero
        negative_serp_count ==
            Cardinality({i \in 1..Len(serp_data) :
                ContainsAny(Lower(Get(serp_data[i], "query", "")),
                            <<"complaint", "problem", "lawsuit", "scandal">>)})
        serp_score ==
            IF Len(serp_data) > 0
            THEN FMul(F(30, 1), FSub(One, F(negative_serp_count, Len(serp_data))))
            ELSE F(30, 1)
        issues_penalty == Min(Len(issues) * 2, 20)
        final_score == FAdd(FAdd(sentiment_score, serp_score),
                            F(20 - issues_penalty, 1))
    IN FMax(Zero, FMin(Num100, final_score))

\* intent_breakdown: the reviews with a text, counted by classify_intent
IntentBreakdown(texts) ==
    [intent \in {classify_intent(texts[i]).intent : i \in 1..Len(texts)} |->
        Cardinality({i \in 1..Len(texts) : classify_intent(texts[i]).intent = intent})]

\* str(e) of detect_crisis_signals' TypeError: None + ' ' for a null
\* content, str + None for a null title
CrisisError(review) ==
    IF Get(review, "content", "") = None
    THEN "unsupported operand type(s) for +: 'NoneType' and 'str'"
    ELSE "can only concatenate str (not \"NoneType\") to str"

FirstWithoutText(reviews) ==
    reviews[CHOOSE i \in 1..Len(reviews) :
                /\ TextRaises(reviews[i])
                /\ \A j \in 1..(i - 1) : ~TextRaises(reviews[j])]

\* The sentiment and the intents raise nothing; detect_crisis_signals
\* raises for a null text, identify_key_issues for a dictionary of search
\* results.  classified_reviews and key_themes are left out: nothing
\* modelled reads them, and their loops raise on no review that passed the
\* crisis detector.
analyze_with_evidence(reviews, serp_data, sentiment) ==
    IF CrisisRaises(reviews)
    THEN RaisedWith("TypeError", CrisisError(FirstWithoutText(reviews)))
    ELSE IF SerpRaises(serp_data)
    THEN RaisedWith("AttributeError", "'str' object has no attribute 'get'")
    ELSE [sentiment_analysis |-> analyze_reviews_sentiment(reviews, sentiment),
          intent_breakdown |-> IntentBreakdown(AnalysedTexts(reviews)),
          crisis_analysis |-> detect_crisis_signals(reviews),
          prioritized_issues |->
              identify_key_issues_with_evidence(reviews, SerpList(serp_data),
                  [text \in DOMAIN sentiment |-> sentiment[text].sentiment_label]),
          data_sources |->
              [reviews_analyzed |-> Len(reviews),
               serp_results_analyzed |-> Len(SerpList(serp_data))]]

\* The first thing the sample of a review lacks, in the order the sample
\* reads them; NoneDict when it lacks nothing
SampleError(review) ==
    IF "id" \notin DOMAIN review THEN RaisedWith("KeyError", "'id'")
    ELSE IF "content" \notin DOMAIN review THEN RaisedWith("KeyError", "'content'")
    ELSE IF review.content = None
    THEN RaisedWith("TypeError", "'NoneType' object is not subscriptable")
    ELSE IF "rating" \notin DOMAIN review THEN RaisedWith("KeyError", "'rating'")
    ELSE IF "date" \notin DOMAIN review THEN RaisedWith("KeyError", "'date'")
    ELSE NoneDict

\* The reviews the samples are made of: the first two of each platform, in
\* the order of the platforms
RECURSIVE SampledReviews(_)
SampledReviews(platforms) ==
    IF platforms = <<>> THEN <<>>
    ELSE Take(platforms[1].reviews, 2) \o SampledReviews(Tail(platforms))

CitationsError(platforms) ==
    LET sampled == SampledReviews(platforms)
        failing == {i \in 1..Len(sampled) : SampleError(sampled[i]) # NoneDict}
    IN IF failing = {} THEN NoneDict
       ELSE SampleError(sampled[CHOOSE i \in failing : \A j \in failing : i <= j])

SampleReview(review) ==
    [id |-> review.id,
     snippet |-> Take(review.content, 100) \o "...",
     rating |-> review.rating,
     date |-> review.date]

Citation(platform) ==
    [source_type |-> "app_reviews",
     platform |-> platform.name,
     sample_count |-> Len(platform.reviews),
     sample_reviews |-> [i \in 1..Min(2, Len(platform.reviews)) |->
                            SampleReview(platform.reviews[i])]]

\* One citation for each platform that has reviews.  The citation of the
\* search results is left out: a list of search results is never other
\* than empty here.
_generate_data_citations(platforms) ==
    IF CitationsError(platforms) # NoneDict THEN CitationsError(platforms)
    ELSE LET cited == SelectInOrder(platforms,
                          {p \in Range(platforms) : p.reviews # <<>>})
         IN [citations |-> [i \in 1..Len(cited) |-> Citation(cited[i])]]

\* real_data_by_platform, in the order of its keys, with
\* platform.replace("_", " ").title()
DataByPlatform(reddit_mentions, trustpilot_reviews, serp_data) ==
    << [name |-> "App Store", reviews |-> <<>>],
       [name |-> "Google Play", reviews |-> <<>>],
       [name |-> "Reddit", reviews |-> reddit_mentions],
       [name |-> "Trustpilot", reviews |-> trustpilot_reviews],
       [name |-> "Serp", reviews |-> SerpList(serp_data)] >>

\* The result of an analysis that raised nothing.  response_drafts and
\* actionable_insights are left out: they are built of the issues by
\* templates and raise nothing.
ProcessedResult(reddit_mentions, trustpilot_reviews, serp_data,
                comprehensive_analysis, data_citations) ==
    [overall_score |->
         calculate_reputation_score(comprehensive_analysis.sentiment_analysis,
                                    SerpList(serp_data),
                                    comprehensive_analysis.prioritized_issues),
     sentiment_score |-> comprehensive_analysis.sentiment_analysis.average_sentiment,
     enhanced_analysis |-> comprehensive_analysis,
     serp_results |-> SerpList(serp_data),
     app_store_reviews |-> <<>>,
     google_play_reviews |-> <<>>,
     reddit_mentions |-> reddit_mentions,
     trustpilot_reviews |-> trustpilot_reviews,
     data_citations |-> data_citations.citations,
     early_warning |-> comprehensive_analysis.crisis_analysis]

ProcessedAnalysis(reddit_mentions, trustpilot_reviews, serp_data,
                  comprehensive_analysis) ==
    IF "raises" \in DOMAIN comprehensive_analysis THEN comprehensive_analysis
    ELSE LET data_citations ==
                 _generate_data_citations(
                     DataByPlatform(reddit_mentions, trustpilot_reviews, serp_data))
         IN IF "raises" \in DOMAIN data_citations THEN data_citations
            ELSE ProcessedResult(reddit_mentions, trustpilot_reviews, serp_data,
                                 comprehensive_analysis, data_citations)

\* Without data the result is an error dictionary that has no overall_score;
\* an exception of the analysis or of the citations leaves the call
_process_crew_results(reddit_mentions, trustpilot_reviews, real_serp, sentiment) ==
    IF reddit_mentions \o trustpilot_reviews = <<>>
    THEN [error |-> "No real data available for analysis", total_data_points |-> 0]
    ELSE ProcessedAnalysis(reddit_mentions, trustpilot_reviews, real_serp,
             analyze_with_evidence(reddit_mentions \o trustpilot_reviews, real_serp,
                                   sentiment))

\* analysis_result.get(..., {}) of a dictionary: the empty dictionary
EmptyDict == [empty |-> TRUE]

\* db.add(analysis); db.commit(); db.refresh(analysis): the row takes the
\* next id and, by server_default=func.now(), analysis_date, the database's
\* clock at the insert
save_analysis_result(db, analysis_result, product_id, analysis_date) ==
    Append(db, [id |-> Len(db) + 1,
                product_id |-> product_id,
                overall_score |-> Get(analysis_result, "overall_score", Zero),
                sentiment_score |-> Get(analysis_result, "sentiment_score", Zero),
                issues_list |-> Get(Get(analysis_result, "enhanced_analysis", EmptyDict),
                                    "prioritized_issues", <<>>),
                crisis_analysis |-> Get(analysis_result, "early_warning", EmptyDict),
                data_citations |-> Get(analysis_result, "data_citations", <<>>),
                analysis_date |-> analysis_date])

\* order_by(analysis_date.desc()).first() of the product's rows: among rows
\* of the same date the database is free to give any, so this is the set of
\* the rows the query may return; None for a product without rows
get_latest_analysis(db, product_id) ==
    LET rows == {i \in 1..Len(db) : db[i].product_id = product_id}
    IN IF rows = {} THEN {NoneDict}
       ELSE {db[i] : i \in {k \in rows :
                        \A j \in rows : db[j].analysis_date <= db[k].analysis_date}}

\* CURRENT_TIMESTAMP counts seconds: an insert has the date of the insert
\* before it or a later one
ClockAt(db, later) ==
    IF db = <<>> THEN 1
    ELSE db[Len(db)].analysis_date + (IF later THEN 1 ELSE 0)

\* TextBlob's estimates of the collected texts: all of them negative, or
\* all positive
AnalysisEstimates ==
    {[t \in StoreTexts |-> CHOOSE b \in StoreBlobs(t) : t = "" \/ b.polarity = p] :
        p \in {FNeg(Pct50), Pct70}}

\* self.analysis_service.analyze_sentiment(content) without the API key
AnalysisSentiment(blobs) ==
    [text \in DOMAIN blobs |-> analyze_sentiment(text, FALSE, blobs[text], NotCalled)]

\* self._process_crew_results(crew_result, product_name, reddit_mentions,
\* trustpilot_reviews) with what _get_real_serp_data returns
ProcessedOf ==
    [reddit_mentions \in Collections |-> [trustpilot_reviews \in Collections |->
        [real_serp \in SerpAnswers |-> [blobs \in AnalysisEstimates |->
            _process_crew_results(reddit_mentions, trustpilot_reviews, real_serp,
                                  AnalysisSentiment(blobs))]]]]

\* product = self.get_product_by_name(db, product_name), and without one
\* product = self.create_product(db, {"name": product_name, ...}): the
\* table after it and the product's id
ProductOf(rows, product_name) ==
    IF get_product_by_name(rows, product_name) = NoneDict
    THEN [products |-> create_product(rows, [name |-> product_name]),
          id |-> Len(rows) + 1]
    ELSE [products |-> rows, id |-> get_product_by_name(rows, product_name).id]

\* The call as far as the product: it is looked up by its name, and
\* created and committed when there is none
CallAnalyzeProductReputation(saved, db, rows, product_name) ==
    [analyses |-> saved,
     db |-> db,
     products |-> ProductOf(rows, product_name).products,
     call |-> [op |-> "analyze_product_reputation",
               product_name |-> product_name,
               product_id |-> ProductOf(rows, product_name).id,
               crew_result |-> NoneDict,
               reddit_mentions |-> <<>>,
               trustpilot_reviews |-> <<>>,
               real_serp |-> NoneDict,
               analysis_result |-> NoneDict,
               saved_analysis |-> NoneDict],
     pc |-> "collect",
     ret |-> NoneDict]

\* The collectors and the crew have answered: a crew that failed ends the
\* call, with no snapshot saved
AnalysisCollected(s, collected) ==
    [s EXCEPT
        !.call.crew_result = collected.crew_result,
        !.call.reddit_mentions = collected.reddit_mentions,
        !.call.trustpilot_reviews = collected.trustpilot_reviews,
        !.call.real_serp = collected.real_serp,
        !.pc = IF Get(collected.crew_result, "success", FALSE) THEN "process" ELSE "done",
        !.ret = IF Get(collected.crew_result, "success", FALSE) THEN NoneDict
                ELSE [success |-> FALSE,
                      error |-> Get(collected.crew_result, "error", "Analysis failed")]]

\* except Exception as e: the call returns, and what was committed stays
AnalysisFailed(s, str) ==
    [s EXCEPT !.pc = "done",
              !.ret = [success |-> FALSE, error |-> "Analysis failed: " \o str]]

AnalysisProcessed(s, analysis_result) ==
    IF "raises" \in DOMAIN analysis_result THEN AnalysisFailed(s, analysis_result.str)
    ELSE [s EXCEPT !.call.analysis_result = analysis_result, !.pc = "save"]

AnalysisProcess(s, env) ==
    AnalysisProcessed(s, ProcessedOf[s.call.reddit_mentions][s.call.trustpilot_reviews]
                                    [s.call.real_serp][env.blobs])

\* A search result as a mention: "id": f"serp_{serp_item.get('position',
\* 'unknown')}", and datetime.now().isoformat() as the date
SerpMention(serp_item) ==
    [id |-> "serp_" \o (IF "position" \in DOMAIN serp_item
                        THEN ToString(serp_item.position) ELSE "unknown"),
     platform |-> "Google Serp",
     content |-> Get(serp_item, "snippet", ""),
     title |-> Get(serp_item, "title", ""),
     date |-> [type |-> "str", value |-> "2024-01-10T12:00:00.250000"]]

\* all_reviews: the reviews of the result, the collected items and the
\* search results as mentions
AllReviews(frame) ==
    Get(frame.analysis_result, "app_store_reviews", <<>>)
    \o Get(frame.analysis_result, "google_play_reviews", <<>>)
    \o frame.reddit_mentions
    \o frame.trustpilot_reviews
    \o [i \in 1..Len(Get(frame.analysis_result, "serp_results", <<>>)) |->
           SerpMention(frame.analysis_result.serp_results[i])]

\* saved_analysis = self.save_analysis_result(db, analysis_result,
\* product.id): the first commit.  The mentions are stored next, when there
\* are any.
AnalysisSaved(s, saved) ==
    [s EXCEPT !.analyses = saved,
              !.call.saved_analysis = saved[Len(saved)],
              !.pc = IF AllReviews(s.call) = <<>> THEN "result" ELSE "store"]

AnalysisSave(s, later) ==
    AnalysisSaved(s, save_analysis_result(s.analyses, s.call.analysis_result,
                                          s.call.product_id, ClockAt(s.analyses, later)))

\* self.mention_service.parse_and_store_mentions(db, all_reviews,
\* product.id, saved_analysis.id): the second commit.  An exception of it
\* (the commit of a mention without platform is an IntegrityError) ends the
\* call after the snapshot was saved; str(e) is the driver's text, for
\* which the name of the exception stands.
AnalysisStored(s, stored) ==
    IF stored.ret.raised THEN AnalysisFailed(s, "IntegrityError")
    ELSE [s EXCEPT !.db = stored.db, !.pc = "result"]

AnalysisStore(s, kickoffs, env) ==
    AnalysisStored(s, parse_and_store_mentions(s.db, AllReviews(s.call),
                          s.call.product_id, env.key, env.blobs, kickoffs))

\* self._get_score_interpretation(score)["status"]
ScoreStatus(score) ==
    IF ~FLess(score, F(80, 1)) THEN "excellent"
    ELSE IF ~FLess(score, F(60, 1)) THEN "good"
    ELSE IF ~FLess(score, F(40, 1)) THEN "concerning"
    ELSE "critical"

\* final_result: analysis_result["overall_score"] raises KeyError for the
\* error dictionary.  Of the result the id, the metrics and the counts are
\* kept.
AnalysisResult(s) ==
    IF "overall_score" \notin DOMAIN s.call.analysis_result
    THEN AnalysisFailed(s, "'overall_score'")
    ELSE [s EXCEPT
            !.pc = "done",
            !.ret = [success |-> TRUE,
                     analysis_id |-> s.call.saved_analysis.id,
                     overall_score |-> s.call.analysis_result.overall_score,
                     sentiment_score |-> s.call.analysis_result.sentiment_score,
                     status |-> ScoreStatus(s.call.analysis_result.overall_score),
                     crisis_level |->
                         Get(s.call.analysis_result.early_warning, "crisis_level", "none"),
                     total_issues |->
                         Len(s.call.analysis_result.enhanced_analysis.prioritized_issues),
                     total_sources |-> Len(s.call.analysis_result.data_citations)]]

\* The next step of the call; outside.collected is what the collectors,
\* the crew and the SERP service answer, outside.later tells whether the
\* database's clock has moved on since the last insert, outside.kickoffs
\* what crew.kickoff() does for each stored review
AnalysisStep(s, outside, env) ==
    CASE s.pc = "collect" -> AnalysisCollected(s, outside.collected)
      [] s.pc = "process" -> AnalysisProcess(s, env)
      [] s.pc = "save" -> AnalysisSave(s, outside.later)
      [] s.pc = "store" -> AnalysisStore(s, outside.kickoffs, env)
      [] s.pc = "result" -> AnalysisResult(s)

RECURSIVE RunAnalysis(_, _, _)
RunAnalysis(s, outside, env) ==
    IF s.pc = "done" THEN s ELSE RunAnalysis(AnalysisStep(s, outside, env), outside, env)

\* The whole call: the tables it leaves and what it returns
analyze_product_reputation(saved, db, rows, product_name, outside, env) ==
    RunAnalysis(CallAnalyzeProductReputation(saved, db, rows, product_name),
                outside, env)

\* The call at work, and the state it leaves
AnalysisHere ==
    [analyses |-> analyses, db |-> mentions, products |-> products,
     call |-> call, pc |-> pc, ret |-> ret]

AnalysisLeaves(s) ==
    /\ analyses' = s.analyses
    /\ mentions' = s.db
    /\ call' = s.call
    /\ pc' = s.pc
    /\ products' = s.products
    /\ ret' = s.ret
    /\ UNCHANGED <<env_openai, textblob, running>>

InitAnalyze ==
    /\ analyses = <<>>
    /\ running = <<>>
    /\ products = <<>>
    /\ mentions = <<>>
    /\ env_openai = FALSE
    /\ textblob \in AnalysisEstimates
    /\ call = [op |-> "init_db"]
    /\ pc = "done"
    /\ ret = NoneDict

\* The call: the product is found or created
AnalyzeProductReputation ==
    /\ pc = "done"
    /\ Len(analyses) < MaxAnalyses
    /\ \E product_name \in ProductNames :
           /\ Len(ProductOf(products, product_name).products) <= MaxProducts
           /\ AnalysisLeaves(CallAnalyzeProductReputation(analyses, mentions, products,
                                                         product_name))

\* The collectors, the crew and the SERP service answer
CollectAndAnalyze ==
    /\ call.op = "analyze_product_reputation"
    /\ pc = "collect"
    /\ \E crew_result \in CrewResults, reddit_mentions \in Collections,
          trustpilot_reviews \in Collections, real_serp \in SerpAnswers :
           /\ Len(mentions) + Len(reddit_mentions) + Len(trustpilot_reviews) <= MaxStore
           /\ AnalysisLeaves(AnalysisCollected(AnalysisHere,
                  [crew_result |-> crew_result, reddit_mentions |-> reddit_mentions,
                   trustpilot_reviews |-> trustpilot_reviews, real_serp |-> real_serp]))

ProcessCrewResults ==
    /\ call.op = "analyze_product_reputation"
    /\ pc = "process"
    /\ AnalysisLeaves(AnalysisProcess(AnalysisHere, TheEnv))

SaveAnalysisResult ==
    /\ call.op = "analyze_product_reputation"
    /\ pc = "save"
    /\ \E later \in BOOLEAN : AnalysisLeaves(AnalysisSave(AnalysisHere, later))

StoreMentions ==
    /\ call.op = "analyze_product_reputation"
    /\ pc = "store"
    /\ \E kickoffs \in [1..Len(AllReviews(call)) -> KickoffChoices(env_openai)] :
           AnalysisLeaves(AnalysisStore(AnalysisHere, kickoffs, TheEnv))

FinalResult ==
    /\ call.op = "analyze_product_reputation"
    /\ pc = "result"
    /\ AnalysisLeaves(AnalysisResult(AnalysisHere))

NextAnalyze ==
    \/ AnalyzeProductReputation
    \/ CollectAndAnalyze
    \/ ProcessCrewResults
    \/ SaveAnalysisResult
    \/ StoreMentions
    \/ FinalResult

SpecAnalyze == InitAnalyze /\ [][NextAnalyze]_vars

-----------------------------------------------------------------------------
(* C28 *)

\* The table without the row the call saved
BeforeTheCall(saved, frame) ==
    IF frame.saved_analysis = NoneDict THEN saved
    ELSE SelectSeq(saved, LAMBDA row : row.id # frame.saved_analysis.id)

\* C28: a call of analyze_product_reputation that has returned success
\* False persisted no snapshot: get_latest_analysis gives for every product
\* what it gave before the call.
C28_FailedRunPersistsNothing ==
    (call.op = "analyze_product_reputation" /\ pc = "done" /\ ~ret.success) =>
        \A product_id \in Products :
            get_latest_analysis(analyses, product_id)
                = get_latest_analysis(BeforeTheCall(analyses, call), product_id)

-----------------------------------------------------------------------------
(* The scheduler's tasks: scheduler/background_tasks.py and the manual      *)
(* trigger endpoints of api/main.py.  Everything runs on one event loop: a  *)
(* coroutine keeps the loop until it awaits something that suspends it.     *)
(* parse_data_task suspends in asyncio.sleep once for each product.         *)
(* run_ai_analysis_task never suspends: it calls                            *)
(* analyze_product_reputation for each product and then waits in            *)
(* subprocess.run for the classification command, all of it synchronously.  *)
(* It commits as it goes, and so does the command, which is another         *)
(* process: what they have committed is in the tables before the task       *)
(* returns, for the requests that are served by the thread pool meanwhile.  *)
(* `running` holds an entry for each execution that has started and not     *)
(* returned.                                                                *)

MaxRunning == 2

\* run_classification_task: '--batch-size', '20'
ClassificationBatchSize == 20

\* No coroutine holds the event loop: the scheduler and the endpoints can run
LoopFree == \A i \in 1..Len(running) : running[i].at = "sleeping"

\* Executions of the job the scheduler counts against max_instances=1
JobInstances(task) ==
    {i \in 1..Len(running) : running[i].task = task /\ running[i].trigger = "cron"}

Without(executions, i) == SubSeq(executions, 1, i - 1) \o SubSeq(executions, i + 1, Len(executions))

\* parse_data_task up to its first await: without products it returns at
\* once, else it sleeps in simulate_data_parsing for the first product.
\* rows is db.query(Product).all()
parse_data_task(executions, trigger, rows) ==
    IF rows = <<>> THEN executions
    ELSE Append(executions, [task |-> "parse_data_task", trigger |-> trigger,
                             at |-> "sleeping", products |-> Len(rows),
                             product |-> 1])

\* What the outside gives to the analysis of one product: the crew fails;
\* nothing is collected; Reddit has a post and the SERP service answers; a
\* review with an id is collected and the SERP service has failed
ScheduledAnalyses ==
    { [crew_result |-> [success |-> FALSE, error |-> "kickoff failed"],
       reddit_mentions |-> <<>>, trustpilot_reviews |-> <<>>,
       real_serp |-> [list |-> <<>>]],
      [crew_result |-> [success |-> TRUE, analysis_result |-> "report"],
       reddit_mentions |-> <<>>, trustpilot_reviews |-> <<>>,
       real_serp |-> [list |-> <<>>]],
      [crew_result |-> [success |-> TRUE, analysis_result |-> "report"],
       reddit_mentions |-> <<RedditPost>>, trustpilot_reviews |-> <<>>,
       real_serp |-> CHOOSE answer \in SerpAnswers : SerpRaises(answer)] }
    \cup { [crew_result |-> [success |-> TRUE, analysis_result |-> "report"],
            reddit_mentions |-> <<>>, trustpilot_reviews |-> <<r>>,
            real_serp |-> [list |-> <<>>]] :
              r \in {x \in RawReviews : Get(x, "id", None) = "b"} }

\* An execution of run_ai_analysis_task as it starts: rows is
\* db.query(Product).all(), the list the loop goes through; without
\* products the task returns at once.  `product` counts the products the
\* loop has come to, `call` and `pc` are the call the task is in and
\* `result` what the last call returned.
CallRunAiAnalysisTask(trigger, rows) ==
    [task |-> "run_ai_analysis_task", trigger |-> trigger,
     at |-> IF rows = <<>> THEN "returned" ELSE "analysis",
     products |-> rows, product |-> 0,
     call |-> NoneDict, pc |-> "done", result |-> NoneDict]

\* The tables and the execution: the call of analyze_product_reputation the
\* task is in, and the task after a step of that call
TaskCall(t) ==
    [analyses |-> t.analyses, db |-> t.db, products |-> t.products,
     call |-> t.execution.call, pc |-> t.execution.pc, ret |-> t.execution.result]

TaskAfter(t, s) ==
    [analyses |-> s.analyses, db |-> s.db, products |-> s.products,
     execution |-> [t.execution EXCEPT !.call = s.call, !.pc = s.pc,
                                       !.result = s.ret]]

\* for product in products: reputation_service.analyze_product_reputation(
\* product_name=product.name, ...).  The call looks the product up by the
\* name.
AnalyzeProducts(t) ==
    TaskAfter([t EXCEPT !.execution.product = @ + 1],
              CallAnalyzeProductReputation(
                  t.analyses, t.db, t.products,
                  t.execution.products[t.execution.product + 1].name))

\* The next step of the call the task is in
TaskProceeds(t, outside, env) == TaskAfter(t, AnalysisStep(TaskCall(t), outside, env))

\* await run_classification_task(): subprocess.run starts
\* commands/classify_mentions.py with --batch-size 20, for the unprocessed
\* mentions of every product; the command counts them
run_classification_task(t) ==
    LET called == CallClassifyUserMentions(t.db, ClassificationBatchSize, TRUE, 0)
    IN [t EXCEPT !.db = called.db,
                 !.execution.at = "classification",
                 !.execution.call = called.call,
                 !.execution.pc = called.pc,
                 !.execution.result = called.ret]

\* The command's environment: no API key of the mention service is read
CommandEnv == [key |-> FALSE, blobs |-> <<>>, now |-> Now]

\* The next step of the command: a mention at a time, each committed
CommandProceeds(t, response) ==
    LET stepped == Step(t.db, t.execution.call, t.execution.pc, response, CommandEnv)
    IN [t EXCEPT !.db = stepped.db,
                 !.execution.call = stepped.call,
                 !.execution.pc = stepped.pc,
                 !.execution.result = stepped.ret]

\* generate_content does not answer: the command waits until subprocess.run
\* kills it after 1800 seconds, and the mentions committed before stay
CommandHangs(execution) ==
    /\ execution.pc = "waiting"
    /\ execution.call.response = Hangs

\* Where the execution is: at the call for the next product, in a call, at
\* the start of the command, in the command, or at the return of
\* subprocess.run
TaskAt(execution) ==
    IF execution.at = "analysis"
    THEN IF execution.pc # "done" THEN "call"
         ELSE IF execution.product < Len(execution.products) THEN "product"
         ELSE "command"
    ELSE IF execution.at = "classification"
    THEN IF execution.pc = "done" \/ CommandHangs(execution) THEN "return"
         ELSE "step"
    ELSE "returned"

\* One step of the task.  outside.analyses[k] is what the outside gives to
\* the analysis of the k-th product of the list, outside.responses what
\* generate_content answers for each row.
TaskStep(t, outside, env) ==
    CASE TaskAt(t.execution) = "product" -> AnalyzeProducts(t)
      [] TaskAt(t.execution) = "call" ->
             TaskProceeds(t, outside.analyses[t.execution.product], env)
      [] TaskAt(t.execution) = "command" -> run_classification_task(t)
      [] TaskAt(t.execution) = "step" ->
             CommandProceeds(t, Get(outside.responses, Current(t.execution.call),
                                    NotCalled))
      [] TaskAt(t.execution) = "return" -> [t EXCEPT !.execution.at = "returned"]

RECURSIVE RunTask(_, _, _)
RunTask(t, outside, env) ==
    IF TaskAt(t.execution) = "returned" THEN t
    ELSE RunTask(TaskStep(t, outside, env), outside, env)

\* run_ai_analysis_task from its start to its return: the tables it leaves
run_ai_analysis_task(s, trigger, outside, env) ==
    RunTask([analyses |-> s.analyses, db |-> s.db, products |-> s.products,
             execution |-> CallRunAiAnalysisTask(trigger, s.products)],
            outside, env)

\* The tables when the service starts: no product yet; a product and the
\* mention a collection has saved for it; two products of which the first
\* one's name contains the second one's, and two mentions
ScheduledTables ==
    { [products |-> <<>>, mentions |-> <<>>] }
    \cup { [products |-> <<[id |-> 1, name |-> "Acme Pro"]>>,
            mentions |-> _save_collected_data(<<>>, <<a>>, 1)] :
              a \in {x \in RawReviews : Get(x, "id", None) = "a"} }
    \cup { [products |-> <<[id |-> 1, name |-> "Acme Pro"], [id |-> 2, name |-> "Acme"]>>,
            mentions |-> _save_collected_data(<<>>, <<a, b>>, 1)] :
              a \in {x \in RawReviews : Get(x, "id", None) = "a"},
              b \in {x \in RawReviews : Get(x, "id", None) = "b"} }

\* ENV_RUN_SCHEDULER decides at startup whether the two cron jobs exist
InitScheduler ==
    /\ analyses = <<>>
    /\ running = <<>>
    /\ \E tables \in ScheduledTables :
           /\ products = tables.products
           /\ mentions = tables.mentions
    /\ env_openai = FALSE
    /\ textblob = StoreEstimates
    /\ call \in {[op |-> "start_scheduler", run_scheduler |-> b] : b \in BOOLEAN}
    /\ pc = "done"
    /\ ret = NoneDict

\* POST /products: the product is created without a look at the names
\* there are.  The endpoint is a plain function, the thread pool runs it.
CreateProduct ==
    /\ Len(products) < MaxProducts
    /\ \E name \in ProductNames :
           /\ products' = create_product(products, [name |-> name])
           /\ ret' = products'[Len(products')]
    /\ UNCHANGED <<call, mentions, env_openai, pc, textblob, analyses, running>>

\* CronTrigger(hour=9) fires; the executor skips the run when an instance of
\* the job is still running
CronParsing ==
    /\ call.run_scheduler
    /\ LoopFree
    /\ JobInstances("parse_data_task") = {}
    /\ Len(running) < MaxRunning
    /\ running' = parse_data_task(running, "cron", products)
    /\ UNCHANGED <<call, ret, mentions, env_openai, pc, textblob, analyses, products>>

\* POST /scheduler/manual/parse awaits parse_data_task directly
TriggerManualParsing ==
    /\ LoopFree
    /\ Len(running) < MaxRunning
    /\ running' = parse_data_task(running, "manual", products)
    /\ ret' = IF products = <<>>
              THEN [success |-> TRUE,
                    message |-> "Manual data parsing completed successfully"]
              ELSE ret
    /\ UNCHANGED <<call, mentions, env_openai, pc, textblob, analyses, products>>

\* What the caller of a returning execution does: the endpoint answers, the
\* scheduler's listener only logs
Returned(execution, message) ==
    IF execution.trigger = "manual" THEN [success |-> TRUE, message |-> message]
    ELSE ret

\* asyncio.sleep(2) is over: the product is done, the loop goes to the next
\* product or the task returns
ParseResume ==
    /\ LoopFree
    /\ \E i \in 1..Len(running) :
           /\ running[i].task = "parse_data_task"
           /\ running[i].at = "sleeping"
           /\ IF running[i].product = running[i].products
              THEN /\ running' = Without(running, i)
                   /\ ret' = Returned(running[i],
                                      "Manual data parsing completed successfully")
              ELSE /\ running' = [running EXCEPT ![i].product = @ + 1]
                   /\ ret' = ret
    /\ UNCHANGED <<call, mentions, env_openai, pc, textblob, analyses, products>>

\* An execution of run_ai_analysis_task starts: it reads the products
AnalysisStarts(trigger) ==
    /\ running' = IF products = <<>> THEN running
                  ELSE Append(running, CallRunAiAnalysisTask(trigger, products))
    /\ ret' = IF products = <<>> /\ trigger = "manual"
              THEN [success |-> TRUE,
                    message |-> "Manual AI analysis completed successfully"]
              ELSE ret

\* CronTrigger(hour=10) fires
CronAnalysis ==
    /\ call.run_scheduler
    /\ LoopFree
    /\ JobInstances("run_ai_analysis_task") = {}
    /\ Len(running) < MaxRunning
    /\ AnalysisStarts("cron")
    /\ UNCHANGED <<call, mentions, env_openai, pc, textblob, analyses, products>>

\* POST /scheduler/manual/analyze awaits run_ai_analysis_task directly
TriggerManualAnalysis ==
    /\ LoopFree
    /\ Len(running) < MaxRunning
    /\ AnalysisStarts("manual")
    /\ UNCHANGED <<call, mentions, env_openai, pc, textblob, analyses, products>>

\* The execution of run_ai_analysis_task at work, with the tables
TaskHere(i) ==
    [analyses |-> analyses, db |-> mentions, products |-> products,
     execution |-> running[i]]

\* The step's writes are committed; the task keeps the loop
TaskLeaves(i, t) ==
    /\ analyses' = t.analyses
    /\ mentions' = t.db
    /\ products' = t.products
    /\ running' = [running EXCEPT ![i] = t.execution]
    /\ UNCHANGED <<call, ret, env_openai, pc, textblob>>

\* The task is at `at`
TaskStands(i, at) ==
    /\ running[i].task = "run_ai_analysis_task"
    /\ TaskAt(running[i]) = at

\* The rows the analysis of a product may store
AnalysisRows(collected) ==
    Len(collected.reddit_mentions) + Len(collected.trustpilot_reviews)

\* The loop comes to the next product: the call finds the product
AnalysisOfProduct ==
    \E i \in 1..Len(running) :
        /\ TaskStands(i, "product")
        /\ TaskLeaves(i, AnalyzeProducts(TaskHere(i)))

\* The collectors and the crew answer.  crew.kickoff() is not called for
\* the stored reviews, there is no API key.
AnalysisCollects ==
    \E i \in 1..Len(running) :
        /\ TaskStands(i, "call")
        /\ running[i].pc = "collect"
        /\ \E collected \in ScheduledAnalyses :
               /\ collected.crew_result.success => Len(analyses) < MaxAnalyses
               /\ Len(mentions) + AnalysisRows(collected) <= MaxStore
               /\ TaskLeaves(i, TaskProceeds(TaskHere(i),
                                 [collected |-> collected, later |-> TRUE,
                                  kickoffs |-> <<>>],
                                 TheEnv))

\* The call goes on: the result is processed, the snapshot is committed,
\* the mentions are committed, the answer is made
AnalysisProceeds ==
    \E i \in 1..Len(running) :
        /\ TaskStands(i, "call")
        /\ running[i].pc # "collect"
        /\ \E later \in BOOLEAN :
               TaskLeaves(i, TaskProceeds(TaskHere(i),
                                 [collected |-> NoneDict, later |-> later,
                                  kickoffs |-> <<>>],
                                 TheEnv))

\* The last product is done: the task starts the classification command and
\* waits for it in subprocess.run
ClassificationStarts ==
    \E i \in 1..Len(running) :
        /\ TaskStands(i, "command")
        /\ TaskLeaves(i, run_classification_task(TaskHere(i)))

\* The command goes on while the task waits: generate_content answers, or
\* it does not, for the mention the command is at
ClassificationProceeds ==
    \E i \in 1..Len(running) :
        /\ TaskStands(i, "step")
        /\ \/ TaskLeaves(i, CommandProceeds(TaskHere(i), Hangs))
           \/ \E response \in GeminiResponses :
                  TaskLeaves(i, CommandProceeds(TaskHere(i), response))

\* subprocess.run returns, the command done or killed; run_ai_analysis_task
\* returns and gives the loop back
AnalysisReturn ==
    /\ \E i \in 1..Len(running) :
           /\ TaskStands(i, "return")
           /\ running' = Without(running, i)
           /\ ret' = Returned(running[i], "Manual AI analysis completed successfully")
    /\ UNCHANGED <<call, mentions, env_openai, pc, textblob, analyses, products>>

NextScheduler ==
    \/ CreateProduct
    \/ CronParsing
    \/ TriggerManualParsing
    \/ ParseResume
    \/ CronAnalysis
    \/ TriggerManualAnalysis
    \/ AnalysisOfProduct
    \/ AnalysisCollects
    \/ AnalysisProceeds
    \/ ClassificationStarts
    \/ ClassificationProceeds
    \/ AnalysisReturn

SpecScheduler == InitScheduler /\ [][NextScheduler]_vars

-----------------------------------------------------------------------------
(* C30 *)

Executions(task) == {i \in 1..Len(running) : running[i].task = task}

\* C30: at any time at most one execution of parse_data_task and at most one
\* execution of run_ai_analysis_task is in progress, whether started by the
\* cron trigger or by the manual trigger endpoints.
C30_OneExecutionPerTask ==
    /\ Cardinality(Executions("parse_data_task")) <= 1
    /\ Cardinality(Executions("run_ai_analysis_task")) <= 1

-----------------------------------------------------------------------------
(* C21 *)

\* The text a review is stored with when a missing or null content counts
\* as empty
ContentOrEmpty(review_data) ==
    IF Get(review_data, "content", "") = None THEN "" ELSE Get(review_data, "content", "")

\* C21: ingestion of a batch whose reviews have empty, missing or null
\* content completes without raising, and every review of the batch is
\* stored, a missing text as the empty text.
C21_MissingTextIsEmptyText ==
    \A s \in DOMAIN pc :
        pc[s] = "done" =>
            /\ ~ret[s].raised
            /\ \A k \in 1..Len(call[s].raw_reviews) :
                   \E i \in 1..Len(mentions) :
                       mentions[i].content = ContentOrEmpty(call[s].raw_reviews[k])

====
